---- MODULE Spec2Model ----
(***************************************************************************)
(* Model of the collaborative notepad: the character diff                  *)
(* (src/server/versioning.ts), the OT primitives (src/common/ot.ts), the   *)
(* version store (src/server/versioning.ts), the sync server              *)
(* (src/unnamed/part_001) and the browser client (src/client/app.ts).      *)
(*                                                                         *)
(* Strings are sequences of one-character strings.  An Operation is a      *)
(* record [type, length, text, position]; a field the source leaves        *)
(* undefined is 0 (length) or <<>> (text), which is what the source's      *)
(* `op.length || 0` and `op.text?.length || 0` read from it.               *)
(***************************************************************************)
EXTENDS Integers, Sequences, FiniteSets, TLC

\* ------------------------------------------------------------------ bounds
Alphabet == {"a", "b"}
PureAlphabet == {"a", "b", "c"}
MaxPureLen == 2
MaxTime == 1
NumClients == 2
MaxInputs == 3
MaxLen == 2
MaxFrames == 2
MaxRawOps == 1
MaxRawPos == 1
MaxCommits == 3
MaxCloses == 1
MaxRetainPos == 3
MaxRetains == 2
MaxTransformPos == 2
MaxClientOps == 3
MaxServerOps == 2

\* ------------------------------------------------------------- utilities
Max(x, y) == IF x >= y THEN x ELSE y

RECURSIVE StringsUpTo(_, _)
StringsUpTo(alphabet, n) ==
  IF n = 0 THEN {<<>>}
  ELSE LET shorter == StringsUpTo(alphabet, n - 1)
       IN shorter \cup {Append(s, ch) : s \in {t \in shorter : Len(t) = n - 1}, ch \in alphabet}

\* String.prototype.slice(start, end): a negative index counts from the end,
\* every index is clamped to 0..length, an empty range yields "".
SliceIndex(s, i) == IF i < 0 THEN Max(Len(s) + i, 0) ELSE IF i > Len(s) THEN Len(s) ELSE i
Slice(s, start, end) ==
  LET from == SliceIndex(s, start)
      to == SliceIndex(s, end)
  IN IF from < to THEN SubSeq(s, from + 1, to) ELSE <<>>
SliceFrom(s, start) == Slice(s, start, Len(s))

\* ------------------------------------------- src/server/versioning.ts diff
\* The LCS table dp[i][j] of generateCharacterDiff.
RECURSIVE dp(_, _, _, _)
dp(chars1, chars2, i, j) ==
  IF i = 0 \/ j = 0 THEN 0
  ELSE IF chars1[i] = chars2[j] THEN dp(chars1, chars2, i - 1, j - 1) + 1
  ELSE Max(dp(chars1, chars2, i - 1, j), dp(chars1, chars2, i, j - 1))

\* The reconstruction loop leaving through its `break` where it should
\* unshift a removed character.
RECURSIVE Backtrack_BreaksOnRemoved(_, _, _, _)
Backtrack_BreaksOnRemoved(chars1, chars2, i, j) ==
  IF ~(i > 0 \/ j > 0) THEN <<>>
  ELSE IF i > 0 /\ j > 0 /\ chars1[i] = chars2[j]
    THEN Append(Backtrack_BreaksOnRemoved(chars1, chars2, i - 1, j - 1),
                [char |-> chars1[i], type |-> "unchanged"])
  ELSE IF j > 0 /\ (i = 0 \/ dp(chars1, chars2, i, j - 1) >= dp(chars1, chars2, i - 1, j))
    THEN Append(Backtrack_BreaksOnRemoved(chars1, chars2, i, j - 1),
                [char |-> chars2[j], type |-> "added"])
  ELSE <<>>

\* The reconstruction loop of generateCharacterDiff, from (i, j) back to
\* (0, 0); every entry is unshifted, so the entries found later in the walk
\* stand earlier in the result.  The final ELSE is the loop's `break`.
RECURSIVE Backtrack(_, _, _, _)
Backtrack(chars1, chars2, i, j) ==
  IF ~(i > 0 \/ j > 0) THEN <<>>
  ELSE IF i > 0 /\ j > 0 /\ chars1[i] = chars2[j]
    THEN Append(Backtrack(chars1, chars2, i - 1, j - 1), [char |-> chars1[i], type |-> "unchanged"])
  ELSE IF j > 0 /\ (i = 0 \/ dp(chars1, chars2, i, j - 1) >= dp(chars1, chars2, i - 1, j))
    THEN Append(Backtrack(chars1, chars2, i, j - 1), [char |-> chars2[j], type |-> "added"])
  ELSE IF i > 0 /\ (j = 0 \/ dp(chars1, chars2, i, j - 1) < dp(chars1, chars2, i - 1, j))
    THEN Append(Backtrack(chars1, chars2, i - 1, j), [char |-> chars1[i], type |-> "removed"])
  ELSE <<>>

generateCharacterDiff(line1, line2) == Backtrack(line1, line2, Len(line1), Len(line2))

\* diff(text1, text2): [] for equal texts, else one DiffResult per CharDiff,
\* whose `line` is the one-character string.
diff(text1, text2) ==
  IF text1 = text2 THEN <<>>
  ELSE LET charDiffs == generateCharacterDiff(text1, text2)
       IN [k \in 1..Len(charDiffs) |-> [type |-> charDiffs[k].type, line |-> <<charDiffs[k].char>>]]

\* ----------------------------------------------------- src/common/ot.ts
RetainOp(len, pos) == [type |-> "retain", length |-> len, text |-> <<>>, position |-> pos]
InsertOp(txt, pos) == [type |-> "insert", length |-> 0, text |-> txt, position |-> pos]
DeleteOp(len, pos) == [type |-> "delete", length |-> len, text |-> <<>>, position |-> pos]

\* diffToOperations with the cursor left where it is after an 'unchanged'
\* entry.
RECURSIVE DiffToOps_RetainStays(_, _, _)
DiffToOps_RetainStays(diffs, k, position) ==
  IF k > Len(diffs) THEN <<>>
  ELSE LET d == diffs[k] IN
    CASE d.type = "unchanged" ->
           <<RetainOp(Len(d.line), position)>> \o DiffToOps_RetainStays(diffs, k + 1, position)
      [] d.type = "added" ->
           <<InsertOp(d.line, position)>> \o DiffToOps_RetainStays(diffs, k + 1, position)
      [] d.type = "removed" ->
           <<DeleteOp(Len(d.line), position)>>
             \o DiffToOps_RetainStays(diffs, k + 1, position + Len(d.line))
      [] OTHER -> DiffToOps_RetainStays(diffs, k + 1, position)

\* diffToOperations with the cursor advanced after an 'added' entry.
RECURSIVE DiffToOps_InsertAdvances(_, _, _)
DiffToOps_InsertAdvances(diffs, k, position) ==
  IF k > Len(diffs) THEN <<>>
  ELSE LET d == diffs[k] IN
    CASE d.type = "unchanged" ->
           <<RetainOp(Len(d.line), position)>>
             \o DiffToOps_InsertAdvances(diffs, k + 1, position + Len(d.line))
      [] d.type = "added" ->
           <<InsertOp(d.line, position)>>
             \o DiffToOps_InsertAdvances(diffs, k + 1, position + Len(d.line))
      [] d.type = "removed" ->
           <<DeleteOp(Len(d.line), position)>>
             \o DiffToOps_InsertAdvances(diffs, k + 1, position + Len(d.line))
      [] OTHER -> DiffToOps_InsertAdvances(diffs, k + 1, position)

\* diffToOperations: `position` is the cursor in the original document; an
\* insert does not advance it.  diff() never yields a 'modified' entry, so
\* that case of the switch is not reached and an entry of any other type
\* adds no operation.
RECURSIVE DiffToOpsFrom(_, _, _)
DiffToOpsFrom(diffs, k, position) ==
  IF k > Len(diffs) THEN <<>>
  ELSE LET d == diffs[k] IN
    CASE d.type = "unchanged" ->
           <<RetainOp(Len(d.line), position)>> \o DiffToOpsFrom(diffs, k + 1, position + Len(d.line))
      [] d.type = "added" ->
           <<InsertOp(d.line, position)>> \o DiffToOpsFrom(diffs, k + 1, position)
      [] d.type = "removed" ->
           <<DeleteOp(Len(d.line), position)>> \o DiffToOpsFrom(diffs, k + 1, position + Len(d.line))
      [] OTHER -> DiffToOpsFrom(diffs, k + 1, position)

diffToOperations(diffs) == DiffToOpsFrom(diffs, 1, 0)

\* The tie-break with the client's delete kept when the server deleted at
\* the same position.
EqualPositionResult_KeepsDelete(clientOp, serverOp, positionOffset) ==
  IF clientOp.type = "insert" /\ serverOp.type = "insert"
    THEN <<[clientOp EXCEPT !.position = clientOp.position + Len(serverOp.text)]>>
  ELSE <<[clientOp EXCEPT !.position = clientOp.position + positionOffset]>>

\* The tie-break with the client's operation dropped in the mixed case too.
EqualPositionResult_DropsMixed(clientOp, serverOp, positionOffset) ==
  IF clientOp.type = "insert" /\ serverOp.type = "insert"
    THEN <<[clientOp EXCEPT !.position = clientOp.position + Len(serverOp.text)]>>
  ELSE <<>>

\* The tie-break of transformOperations for a client and a server operation
\* at the same position: the operations it pushes.
EqualPositionResult(clientOp, serverOp, positionOffset) ==
  IF clientOp.type = "insert" /\ serverOp.type = "insert"
    THEN <<[clientOp EXCEPT !.position = clientOp.position + Len(serverOp.text)]>>
  ELSE IF clientOp.type = "delete" /\ serverOp.type = "delete"
    THEN <<>>
  ELSE <<[clientOp EXCEPT !.position = clientOp.position + positionOffset]>>

\* What a server operation lying before the client operation adds to
\* positionOffset.
OffsetAfter(serverOp, positionOffset) ==
  IF serverOp.type = "insert" THEN positionOffset + Len(serverOp.text)
  ELSE IF serverOp.type = "delete" THEN positionOffset - serverOp.length
  ELSE positionOffset

\* The while loop of transformOperations (indices are 1-based here).
RECURSIVE TransformLoop(_, _, _, _, _)
TransformLoop(clientOps, serverOps, clientIndex, serverIndex, positionOffset) ==
  IF clientIndex > Len(clientOps) THEN <<>>
  ELSE LET clientOp == clientOps[clientIndex] IN
    IF serverIndex > Len(serverOps)
      THEN <<[clientOp EXCEPT !.position = clientOp.position + positionOffset]>>
           \o TransformLoop(clientOps, serverOps, clientIndex + 1, serverIndex, positionOffset)
    ELSE LET serverOp == serverOps[serverIndex] IN
      IF clientOp.position < serverOp.position
        THEN <<[clientOp EXCEPT !.position = clientOp.position + positionOffset]>>
             \o TransformLoop(clientOps, serverOps, clientIndex + 1, serverIndex, positionOffset)
      ELSE IF clientOp.position > serverOp.position
        THEN TransformLoop(clientOps, serverOps, clientIndex, serverIndex + 1,
                           OffsetAfter(serverOp, positionOffset))
      ELSE EqualPositionResult(clientOp, serverOp, positionOffset)
           \o TransformLoop(clientOps, serverOps, clientIndex + 1, serverIndex + 1, positionOffset)

\* transformOperations with positionOffset starting at 1.
transformOperations_StartsShifted(clientOps, serverOps) ==
  TransformLoop(clientOps, serverOps, 1, 1, 1)

transformOperations(clientOps, serverOps) == TransformLoop(clientOps, serverOps, 1, 1, 0)

\* One iteration of the while loop with serverIndex left as it is when the
\* server operation lies before the client operation.
NextIndices_ServerStays(clientOps, serverOps, clientIndex, serverIndex) ==
  IF serverIndex > Len(serverOps) THEN <<clientIndex + 1, serverIndex>>
  ELSE IF clientOps[clientIndex].position < serverOps[serverIndex].position
    THEN <<clientIndex + 1, serverIndex>>
  ELSE IF clientOps[clientIndex].position > serverOps[serverIndex].position
    THEN <<clientIndex, serverIndex>>
  ELSE <<clientIndex + 1, serverIndex + 1>>

\* One iteration of the while loop of transformOperations: the indices
\* (1-based here) it leaves, from those it finds.
NextIndices(clientOps, serverOps, clientIndex, serverIndex) ==
  IF serverIndex > Len(serverOps) THEN <<clientIndex + 1, serverIndex>>
  ELSE IF clientOps[clientIndex].position < serverOps[serverIndex].position
    THEN <<clientIndex + 1, serverIndex>>
  ELSE IF clientOps[clientIndex].position > serverOps[serverIndex].position
    THEN <<clientIndex, serverIndex + 1>>
  ELSE <<clientIndex + 1, serverIndex + 1>>

\* The indices at the start of every iteration of the while loop, followed
\* by those it ends with; the walk is cut after `iterations` iterations.
RECURSIVE TransformWalk(_, _, _, _, _)
TransformWalk(clientOps, serverOps, clientIndex, serverIndex, iterations) ==
  IF clientIndex > Len(clientOps) \/ iterations = 0 THEN <<<<clientIndex, serverIndex>>>>
  ELSE LET next == NextIndices(clientOps, serverOps, clientIndex, serverIndex)
       IN <<<<clientIndex, serverIndex>>>>
            \o TransformWalk(clientOps, serverOps, next[1], next[2], iterations - 1)

\* [...operations].sort((a, b) => a.position - b.position): a stable sort.
RECURSIVE InsertSorted(_, _)
InsertSorted(sorted, op) ==
  IF sorted = <<>> THEN <<op>>
  ELSE IF sorted[Len(sorted)].position <= op.position THEN Append(sorted, op)
  ELSE Append(InsertSorted(SubSeq(sorted, 1, Len(sorted) - 1), op), sorted[Len(sorted)])

RECURSIVE SortByPosition(_)
SortByPosition(operations) ==
  IF operations = <<>> THEN <<>>
  ELSE InsertSorted(SortByPosition(SubSeq(operations, 1, Len(operations) - 1)),
                    operations[Len(operations)])

\* One iteration of applyOperations with the offset left as it is after an
\* insert.
ApplyOne_InsertKeepsOffset(result, offset, op) ==
  LET adjustedPosition == op.position + offset IN
  CASE op.type = "insert" ->
         [result |-> Slice(result, 0, adjustedPosition) \o op.text \o SliceFrom(result, adjustedPosition),
          offset |-> offset]
    [] op.type = "delete" ->
         [result |-> Slice(result, 0, adjustedPosition) \o SliceFrom(result, adjustedPosition + op.length),
          offset |-> offset - op.length]
    [] OTHER -> [result |-> result, offset |-> offset]

\* One iteration of applyOperations with a retain cutting its length out of
\* the text, as a delete does.
ApplyOne_RetainDeletes(result, offset, op) ==
  LET adjustedPosition == op.position + offset IN
  CASE op.type = "insert" ->
         [result |-> Slice(result, 0, adjustedPosition) \o op.text \o SliceFrom(result, adjustedPosition),
          offset |-> offset + Len(op.text)]
    [] OTHER ->
         [result |-> Slice(result, 0, adjustedPosition) \o SliceFrom(result, adjustedPosition + op.length),
          offset |-> offset - op.length]

\* One iteration of the for loop of applyOperations.
ApplyOne(result, offset, op) ==
  LET adjustedPosition == op.position + offset IN
  CASE op.type = "insert" ->
         [result |-> Slice(result, 0, adjustedPosition) \o op.text \o SliceFrom(result, adjustedPosition),
          offset |-> offset + Len(op.text)]
    [] op.type = "delete" ->
         [result |-> Slice(result, 0, adjustedPosition) \o SliceFrom(result, adjustedPosition + op.length),
          offset |-> offset - op.length]
    [] OTHER -> [result |-> result, offset |-> offset]

RECURSIVE ApplyLoop(_, _, _, _)
ApplyLoop(result, offset, sortedOps, k) ==
  IF k > Len(sortedOps) THEN result
  ELSE LET step == ApplyOne(result, offset, sortedOps[k])
       IN ApplyLoop(step.result, step.offset, sortedOps, k + 1)

applyOperations(content, operations) == ApplyLoop(content, 0, SortByPosition(operations), 1)

\* The transformedClientOps of operationalTransform (lines 213-220).
transformedClientOps(baseContent, clientContent, serverContent) ==
  LET serverOps == diffToOperations(diff(baseContent, serverContent))
      clientOps == diffToOperations(diff(baseContent, clientContent))
  IN transformOperations(clientOps, serverOps)

\* operationalTransform that lets the client's text win.
operationalTransform_ClientWins(baseContent, clientContent, serverContent) ==
  [success |-> TRUE, mergedContent |-> clientContent]

\* operationalTransform with diffFunction = diff.  No step of the try block
\* throws on strings and on the operations diffToOperations returns, so the
\* result is always a success.
operationalTransform(baseContent, clientContent, serverContent) ==
  [success |-> TRUE,
   mergedContent |-> applyOperations(serverContent,
                       transformedClientOps(baseContent, clientContent, serverContent))]

\* ------------------------------------ src/server/versioning.ts store
\* A hash is modelled by the tagged value it is the SHA-1 of (SHA-1 taken as
\* collision-free): the raw text of a blob, the JSON of a tree
\* {filename: blobHash}, the JSON of a commit {tree, parent, message,
\* timestamp}.  Null stands for JavaScript's null where a hash or a text is
\* expected, NullOps where a list of operations is, NoResponse for no
\* response body and NoSocket for no socket (each is of the shape of the
\* values it stands among, so that it can be compared with them).
Null == <<"null">>
NullOps == <<[type |-> "null", length |-> 0, text |-> <<>>, position |-> 0]>>
NoResponse == [status |-> "none", latest_hash |-> Null, latest_content |-> Null]
NoSocket == "no socket"
TreeHash(filename, blobHash) == <<"tree", filename, blobHash>>

\* hashObject hashes a string as it is and any other object by its
\* JSON.stringify, so the text that spells the JSON of a tree has the hash of
\* that tree.  JsonOfTree(filename, blobHash) is that text (the one text
\* here that is not a tuple of characters), TreeObject the tree itself.
JsonOfTree(filename, blobHash) == <<"{json}", filename, blobHash>>
TreeObject(filename, blobHash) == <<"{tree}", filename, blobHash>>
IsJsonOfTree(content) == Len(content) = 3 /\ content[1] = "{json}"
IsTreeObject(object) == Len(object) = 3 /\ object[1] = "{tree}"
BlobHash(content) ==
  IF IsJsonOfTree(content) THEN TreeHash(content[2], content[3]) ELSE <<"blob", content>>
CommitHash(tree, parent, message, timestamp) == <<"commit", tree, parent, message, timestamp>>

\* new VersionHistory(filename): an empty db, HEAD = null.
NewVersionHistory(filename) == [db |-> <<>>, HEAD |-> Null, filename |-> filename]

\* this.db.set(key, value) on the function that models the Map.
DbSet(db, key, value) == [k \in DOMAIN db \cup {key} |-> IF k = key THEN value ELSE db[k]]
\* if (!this.db.has(key)) this.db.set(key, value)
DbSetIfAbsent(db, key, value) == IF key \in DOMAIN db THEN db ELSE DbSet(db, key, value)

\* commit with no parent written into the commit object.
commit_NoParent(history, content, message, timestamp) ==
  LET blobHash == BlobHash(content)
      db1 == DbSetIfAbsent(history.db, blobHash, content)
      treeHash == TreeHash(history.filename, blobHash)
      db2 == DbSetIfAbsent(db1, treeHash, TreeObject(history.filename, blobHash))
      commitData == [tree |-> treeHash, parent |-> Null,
                     message |-> message, timestamp |-> timestamp]
      commitHash == CommitHash(treeHash, Null, message, timestamp)
  IN [history EXCEPT !.db = DbSet(db2, commitHash, commitData), !.HEAD = commitHash]

\* commit with the blob keyed by the time of the commit besides its text.
commit_BlobPerCommit(history, content, message, timestamp) ==
  LET blobHash == <<"blob", content, timestamp>>
      db1 == DbSetIfAbsent(history.db, blobHash, content)
      treeHash == TreeHash(history.filename, blobHash)
      db2 == DbSetIfAbsent(db1, treeHash, TreeObject(history.filename, blobHash))
      commitData == [tree |-> treeHash, parent |-> history.HEAD,
                     message |-> message, timestamp |-> timestamp]
      commitHash == CommitHash(treeHash, history.HEAD, message, timestamp)
  IN [history EXCEPT !.db = DbSet(db2, commitHash, commitData), !.HEAD = commitHash]

\* commit with the parent read before the commit that made HEAD had landed.
commit_StaleParent(history, content, message, timestamp) ==
  LET blobHash == BlobHash(content)
      db1 == DbSetIfAbsent(history.db, blobHash, content)
      treeHash == TreeHash(history.filename, blobHash)
      db2 == DbSetIfAbsent(db1, treeHash, TreeObject(history.filename, blobHash))
      stale == IF history.HEAD = Null THEN Null ELSE history.db[history.HEAD].parent
      commitData == [tree |-> treeHash, parent |-> stale,
                     message |-> message, timestamp |-> timestamp]
      commitHash == CommitHash(treeHash, stale, message, timestamp)
  IN [history EXCEPT !.db = DbSet(db2, commitHash, commitData), !.HEAD = commitHash]

\* VersionHistory.commit(content, message) at the time `timestamp`; the
\* history after it (its HEAD is the hash commit returns).
commit(history, content, message, timestamp) ==
  LET blobHash == BlobHash(content)
      db1 == DbSetIfAbsent(history.db, blobHash, content)
      treeData == TreeObject(history.filename, blobHash)
      treeHash == TreeHash(history.filename, blobHash)
      db2 == DbSetIfAbsent(db1, treeHash, treeData)
      commitData == [tree |-> treeHash, parent |-> history.HEAD,
                     message |-> message, timestamp |-> timestamp]
      commitHash == CommitHash(treeHash, history.HEAD, message, timestamp)
  IN [history EXCEPT !.db = DbSet(db2, commitHash, commitData), !.HEAD = commitHash]

\* getContent that reads the text of a commit it does not find as empty.
getContent_MissingIsEmpty(history, commitHash) ==
  IF commitHash = Null THEN Null
  ELSE IF commitHash \notin DOMAIN history.db THEN <<>>
  ELSE IF commitHash[1] # "commit" THEN Null
  ELSE history.db[history.db[history.db[commitHash].tree][3]]

\* VersionHistory.getContent(commitHash).  An object that is not a commit
\* has no `tree` property, so db.get(commit.tree) is undefined and the
\* result is null; a text found where the tree is expected has no property
\* of the file's name, so the result is null as well; what is found at the
\* tree's blob hash is returned, whatever it is.
getContent(history, commitHash) ==
  IF commitHash = Null THEN Null
  ELSE IF commitHash \notin DOMAIN history.db THEN Null
  ELSE IF commitHash[1] # "commit" THEN Null
  ELSE LET c == history.db[commitHash] IN
    IF c.tree \notin DOMAIN history.db THEN Null
    ELSE LET tree == history.db[c.tree] IN
      IF ~IsTreeObject(tree) \/ tree[2] # history.filename THEN Null
      ELSE history.db[tree[3]]

getHeadHash(history) == history.HEAD
getCurrentContent(history) == getContent(history, history.HEAD)

\* VersionHistory.log(): the hashes it prints, from HEAD along the parents.
RECURSIVE LogFrom(_, _)
LogFrom(history, currentHash) ==
  IF currentHash = Null THEN <<>>
  ELSE IF currentHash \notin DOMAIN history.db THEN <<>>
  ELSE <<currentHash>> \o LogFrom(history, history.db[currentHash].parent)
log(history) == LogFrom(history, history.HEAD)

\* ------------------------------------------------ src/unnamed/part_001
VARIABLES
  noteHistories,    \* Map noteId -> VersionHistory
  noteConnections,  \* Map noteId -> Set of sockets
  wsData,           \* socket -> ws.data.noteId of the server's socket, NoSocket when there is none
  toServer,         \* socket -> frames sent by the client, not yet handled by the server
  toClient,         \* socket -> frames sent by the server, not yet handled by the client
  fetchResponse,    \* client -> body of the GET response on its way, or NoResponse
  now               \* the server's clock, in milliseconds

svars == <<noteHistories, noteConnections, wsData, toServer, toClient, fetchResponse, now>>

\* getHistoryForNote without its noteHistories.has test: a new history with
\* its initial commit at every call.
getHistoryForNote_AlwaysNew(histories, noteId, timestamp) ==
  [n \in DOMAIN histories \cup {noteId} |->
     IF n = noteId THEN commit(NewVersionHistory(noteId), <<>>, "Initial empty commit", timestamp)
     ELSE histories[n]]

\* getHistoryForNote(noteId): the map after the call; the history is
\* noteHistories[noteId] of the result.
getHistoryForNote(histories, noteId, timestamp) ==
  IF noteId \in DOMAIN histories THEN histories
  ELSE [n \in DOMAIN histories \cup {noteId} |->
          IF n = noteId THEN commit(NewVersionHistory(noteId), <<>>, "Initial empty commit", timestamp)
          ELSE histories[n]]

SyncMsg(base_hash, operations) == [type |-> "sync", base_hash |-> base_hash, operations |-> operations]
AckMsg(new_hash) == [type |-> "ack", new_hash |-> new_hash]
UpdateMsg(latest_hash, operations) ==
  [type |-> "update", latest_hash |-> latest_hash, operations |-> operations]
ErrorMsg == [type |-> "error", message |-> "Base hash not found. Please reload."]
ConflictMsg(message) == [type |-> "conflict", message |-> message]

\* The broadcast loop over the connections of every room.
BroadcastTargets_AllRooms(connections, noteId, ws) ==
  UNION {connections[n] : n \in DOMAIN connections} \ {ws}

\* The broadcast loop without its `client !== ws` test.
BroadcastTargets_IncludingSender(connections, noteId, ws) ==
  IF noteId \in DOMAIN connections THEN connections[noteId] ELSE {}

\* The sockets the broadcast loop sends to: every connection of the room but ws.
BroadcastTargets(connections, noteId, ws) ==
  IF noteId \in DOMAIN connections THEN connections[noteId] \ {ws} ELSE {}

\* One call of send: the frame and the socket it is sent on.
Sent(ws, frame) == [to |-> ws, frame |-> frame]

\* The sockets of a Set in the order the `for ... of` loop visits them.
RECURSIVE InLoopOrder(_)
InLoopOrder(sockets) ==
  IF sockets = {} THEN <<>>
  ELSE LET first == CHOOSE s \in sockets : \A t \in sockets : s <= t
       IN <<first>> \o InLoopOrder(sockets \ {first})

\* The broadcast loop before the reply to the sender.
SendsInOrder_BroadcastFirst(ws, reply, targets, update) ==
  [i \in 1..Cardinality(targets) |-> Sent(InLoopOrder(targets)[i], update)]
    \o <<Sent(ws, reply)>>

\* The fast-forward and merge branches without their ws.send of the ack.
SendsInOrder_BroadcastOnly(ws, reply, targets, update) ==
  [i \in 1..Cardinality(targets) |-> Sent(InLoopOrder(targets)[i], update)]

\* The calls of send, in order: ws.send(reply), then client.send(update) for
\* every client in targets.
SendsInOrder(ws, reply, targets, update) ==
  <<Sent(ws, reply)>>
    \o [i \in 1..Cardinality(targets) |-> Sent(InLoopOrder(targets)[i], update)]

\* The queues after the calls of send in `sends`.
RECURSIVE Enqueue(_, _)
Enqueue(queues, sends) ==
  IF sends = <<>> THEN queues
  ELSE Enqueue([queues EXCEPT ![Head(sends).to] = Append(@, Head(sends).frame)], Tail(sends))

\* websocket.message(ws, message) for a frame of type 'sync': the histories
\* after it, its calls of send in order, and the toClient queues after them.
HandleSync(histories0, connections, queues, ws, payload, timestamp) ==
  LET noteId == wsData[ws]
      base_hash == payload.base_hash
      client_ops == payload.operations
      histories == getHistoryForNote(histories0, noteId, timestamp)
      noteHistory == histories[noteId]
      base_content == getContent(noteHistory, base_hash)
      server_content == getCurrentContent(noteHistory)
      handled ==
        IF base_content = Null
          THEN [histories |-> histories, sends |-> <<Sent(ws, ErrorMsg)>>]
        ELSE IF base_hash = getHeadHash(noteHistory)
          THEN LET client_content == applyOperations(base_content, client_ops)
                   committed == commit(noteHistory, client_content, "Update from client",
                                       timestamp)
                   newCommitHash == committed.HEAD
               IN [histories |-> [histories EXCEPT ![noteId] = committed],
                   sends |-> SendsInOrder(ws, AckMsg(newCommitHash),
                               BroadcastTargets(connections, noteId, ws),
                               UpdateMsg(newCommitHash, client_ops))]
        ELSE LET client_content == applyOperations(base_content, client_ops)
                 result == operationalTransform(base_content, client_content, server_content)
             IN
             IF ~result.success
               THEN [histories |-> histories,
                     sends |-> <<Sent(ws, ConflictMsg("OT failed"))>>]
             ELSE LET committed == commit(noteHistory, result.mergedContent,
                                          "Merged update from client", timestamp)
                      newCommitHash == committed.HEAD
                      server_update_ops ==
                        diffToOperations(diff(server_content, result.mergedContent))
                  IN [histories |-> [histories EXCEPT ![noteId] = committed],
                      sends |-> SendsInOrder(ws, AckMsg(newCommitHash),
                                  IF Len(server_update_ops) > 0
                                    THEN BroadcastTargets(connections, noteId, ws) ELSE {},
                                  UpdateMsg(newCommitHash, server_update_ops))]
  IN [histories |-> handled.histories, sends |-> handled.sends,
      queues |-> Enqueue(queues, handled.sends)]

\* websocket.message with getHistoryForNote called before the test of the
\* frame's type.
ServerMessage_HistoryFirst(ws) ==
  /\ wsData[ws] # NoSocket
  /\ toServer[ws] # <<>>
  /\ LET frame == Head(toServer[ws])
         after == IF frame.type = "sync"
                    THEN HandleSync(noteHistories, noteConnections, toClient, ws, frame, now)
                    ELSE [histories |-> getHistoryForNote(noteHistories, wsData[ws], now),
                          sends |-> <<>>, queues |-> toClient]
     IN /\ noteHistories' = after.histories
        /\ toClient' = after.queues
  /\ toServer' = [toServer EXCEPT ![ws] = Tail(@)]
  /\ UNCHANGED <<noteConnections, wsData, fetchResponse, now>>

\* websocket.message: the server handles the oldest frame of socket ws; a
\* frame whose type is not 'sync' is dropped.
ServerMessage(ws) ==
  /\ wsData[ws] # NoSocket
  /\ toServer[ws] # <<>>
  /\ LET frame == Head(toServer[ws])
         after == IF frame.type = "sync"
                    THEN HandleSync(noteHistories, noteConnections, toClient, ws, frame, now)
                    ELSE [histories |-> noteHistories, sends |-> <<>>, queues |-> toClient]
     IN /\ noteHistories' = after.histories
        /\ toClient' = after.queues
  /\ toServer' = [toServer EXCEPT ![ws] = Tail(@)]
  /\ UNCHANGED <<noteConnections, wsData, fetchResponse, now>>

\* websocket.open(ws) for an upgrade at /ws/note/{noteId}.  The
\* user_count_update frames of broadcastUserCount are left out: the client's
\* handler for them changes nothing but the user counter on the page.
ServerOpen(ws, noteId) ==
  /\ wsData[ws] = NoSocket
  /\ wsData' = [wsData EXCEPT ![ws] = noteId]
  /\ noteConnections' =
       [n \in DOMAIN noteConnections \cup {noteId} |->
          IF n = noteId
            THEN (IF n \in DOMAIN noteConnections THEN noteConnections[n] ELSE {}) \cup {ws}
            ELSE noteConnections[n]]
  /\ UNCHANGED <<noteHistories, toServer, toClient, fetchResponse, now>>

\* websocket.close(ws): the socket leaves its room, an empty room's entry is
\* deleted from noteConnections; frames in flight on the socket are lost.
ServerClose(ws) ==
  /\ wsData[ws] # NoSocket
  /\ LET noteId == wsData[ws]
         left == [noteConnections EXCEPT ![noteId] = @ \ {ws}]
     IN noteConnections' =
          IF noteId \notin DOMAIN noteConnections THEN noteConnections
          ELSE IF left[noteId] = {} THEN [n \in DOMAIN left \ {noteId} |-> left[n]]
          ELSE left
  /\ wsData' = [wsData EXCEPT ![ws] = NoSocket]
  /\ toServer' = [toServer EXCEPT ![ws] = <<>>]
  /\ toClient' = [toClient EXCEPT ![ws] = <<>>]
  /\ UNCHANGED <<noteHistories, fetchResponse, now>>

\* fetch, GET /api/note/{noteId}: the histories after it and the response
\* body.
GetNote(histories0, n, timestamp) ==
  LET histories == getHistoryForNote(histories0, n, timestamp)
      noteHistory == histories[n]
  IN [histories |-> histories,
      body |-> [status |-> "success", latest_hash |-> getHeadHash(noteHistory),
                latest_content |-> getCurrentContent(noteHistory)]]

\* The GET of client c is served; the response is on its way to c.
ServerGet(c, n) ==
  /\ noteHistories' = GetNote(noteHistories, n, now).histories
  /\ fetchResponse' = [fetchResponse EXCEPT ![c] = GetNote(noteHistories, n, now).body]
  /\ UNCHANGED <<noteConnections, wsData, toServer, toClient, now>>

\* new Date() moves on.
Tick ==
  /\ now < MaxTime
  /\ now' = now + 1
  /\ UNCHANGED <<noteHistories, noteConnections, wsData, toServer, toClient, fetchResponse>>

\* ----------------------------------------------- pure-function harness
VARIABLES pBase, pClient, pServer, pResult
VARIABLES
  store,      \* a VersionHistory of its own, as its constructor leaves it
  commitLog,  \* the calls of store.commit so far: content, message, hash returned
  sendLog,    \* the calls of send the server made so far, in order: socket and frame
  closes      \* transport closes so far (bounds the run)
pvars == <<pBase, pClient, pServer, pResult, store, commitLog, sendLog, closes>>

StoreFile == "note.txt"
NewStore ==
  /\ store = NewVersionHistory(StoreFile)
  /\ commitLog = <<>>
NothingSent == sendLog = <<>>
NothingClosed == closes = 0

NoResult == [kind |-> "none", diffs |-> <<>>, ops |-> <<>>, content |-> <<>>]

PureInit ==
  /\ pBase \in StringsUpTo(PureAlphabet, MaxPureLen)
  /\ pClient \in StringsUpTo(PureAlphabet, MaxPureLen + 1)
  /\ pServer \in StringsUpTo(PureAlphabet, MaxPureLen + 1)
  /\ pResult = NoResult
  /\ NewStore
  /\ NothingSent
  /\ NothingClosed

\* diff, diffToOperations and applyOperations on (pBase, pClient).
PureRoundTrip ==
  /\ pResult.kind = "none"
  /\ LET diffs == diff(pBase, pClient)
         ops == diffToOperations(diffs)
     IN pResult' = [kind |-> "roundtrip", diffs |-> diffs, ops |-> ops,
                    content |-> applyOperations(pBase, ops)]
  /\ UNCHANGED <<pBase, pClient, pServer, store, commitLog, sendLog, closes>>

\* operationalTransform on (pBase, pClient, pServer).
PureMerge ==
  /\ pResult.kind = "none"
  /\ pResult' = [kind |-> "merge", diffs |-> <<>>,
                 ops |-> transformedClientOps(pBase, pClient, pServer),
                 content |-> operationalTransform(pBase, pClient, pServer).mergedContent]
  /\ UNCHANGED <<pBase, pClient, pServer, store, commitLog, sendLog, closes>>

\* The texts committed to the store: short texts, and the texts that spell
\* the JSON of the tree of a short text.
StoreTexts ==
  StringsUpTo(Alphabet, 1)
  \cup {JsonOfTree(StoreFile, BlobHash(t)) : t \in StringsUpTo(Alphabet, 1)}
StoreMessages == {"Initial empty commit", "Update from client"}

\* store.commit(content, message), its call written to commitLog.
StoreCommit ==
  /\ Len(commitLog) < MaxCommits
  /\ \E content \in StoreTexts, message \in StoreMessages :
       LET after == commit(store, content, message, now) IN
         /\ store' = after
         /\ commitLog' = Append(commitLog, [content |-> content, message |-> message,
                                            hash |-> after.HEAD])
  /\ UNCHANGED <<pBase, pClient, pServer, pResult, sendLog, closes>>

\* ---------------------------------------------------- src/client/app.ts
VARIABLES
  readyState,           \* client -> state of its WebSocket: "connecting", "open" or "closed"
  fetching,             \* client -> TRUE while ws.onopen awaits the GET response
  latestHash,           \* client -> latestHash
  synchronizedContent,  \* client -> synchronizedContent
  inFlightOps,          \* client -> inFlightOps, NullOps or a list
  pendingOps,           \* client -> pendingOps, NullOps or a list
  editorValue,          \* client -> editor.value
  editorDisabled,       \* client -> editor.disabled
  debounceTimer,        \* client -> TRUE while the 500 ms timer is armed
  inputs,               \* input events so far (bounds the run)
  frames                \* frames sent by hand-written clients so far (bounds the run)

cvars == <<readyState, fetching, latestHash, synchronizedContent, inFlightOps, pendingOps,
           editorValue, editorDisabled, debounceTimer>>

Clients == 1..NumClients
\* const noteId = 'my-test-note'
noteId == "my-test-note"

ListOrEmpty(ops) == IF ops = NullOps THEN <<>> ELSE ops

\* sendOperations(ops) of client c while latestHash is hash: the buffers and
\* the frames to the server after it.
sendOperations(c, hash, inFlight, pending, queue, ops) ==
  IF readyState[c] # "open"
    THEN [inFlight |-> inFlight, pending |-> pending, queue |-> queue]
  ELSE IF inFlight # NullOps
    THEN [inFlight |-> inFlight,
          pending |-> IF pending # NullOps THEN pending \o ops ELSE ops,
          queue |-> queue]
  ELSE [inFlight |-> ops, pending |-> pending,
        queue |-> Append(queue, SyncMsg(hash, ops))]

\* ws.onopen up to its await: the handshake is done, the GET is sent.
ClientOnOpen(c) ==
  /\ readyState[c] = "connecting"
  /\ wsData[c] # NoSocket
  /\ readyState' = [readyState EXCEPT ![c] = "open"]
  /\ fetching' = [fetching EXCEPT ![c] = TRUE]
  /\ UNCHANGED <<latestHash, synchronizedContent, inFlightOps, pendingOps, editorValue,
                 editorDisabled, debounceTimer>>

\* ws.onopen after its await: the response body is handled.
ClientFetched(c) ==
  /\ fetching[c]
  /\ fetchResponse[c] # NoResponse
  /\ latestHash' = [latestHash EXCEPT ![c] = fetchResponse[c].latest_hash]
  /\ synchronizedContent' = [synchronizedContent EXCEPT ![c] = fetchResponse[c].latest_content]
  /\ editorValue' = [editorValue EXCEPT ![c] = fetchResponse[c].latest_content]
  /\ editorDisabled' = [editorDisabled EXCEPT ![c] = FALSE]
  /\ fetching' = [fetching EXCEPT ![c] = FALSE]
  /\ fetchResponse' = [fetchResponse EXCEPT ![c] = NoResponse]
  /\ UNCHANGED <<readyState, inFlightOps, pendingOps, debounceTimer>>

\* The texts one keystroke makes of text: a character typed or deleted
\* anywhere.
Keystrokes(text) ==
  {SubSeq(text, 1, p) \o <<ch>> \o SubSeq(text, p + 1, Len(text)) :
     p \in 0..Len(text), ch \in Alphabet}
  \cup {SubSeq(text, 1, p - 1) \o SubSeq(text, p + 1, Len(text)) : p \in 1..Len(text)}

\* The editor's 'input' listener: the text changed, the timer is re-armed.
EditorInput(c) ==
  /\ ~editorDisabled[c]
  /\ inputs < MaxInputs
  /\ \E text \in Keystrokes(editorValue[c]) :
       /\ Len(text) <= MaxLen
       /\ editorValue' = [editorValue EXCEPT ![c] = text]
  /\ debounceTimer' = [debounceTimer EXCEPT ![c] = TRUE]
  /\ inputs' = inputs + 1
  /\ UNCHANGED <<readyState, fetching, latestHash, synchronizedContent, inFlightOps,
                 pendingOps, editorDisabled>>

\* apply(apply(synchronizedContent, inFlightOps), pendingOps), the text the
\* timer callback diffs against and handleUpdate renders.
Predicted(content, inFlight, pending) ==
  applyOperations(applyOperations(content, ListOrEmpty(inFlight)), ListOrEmpty(pending))

\* The callback of the debounce timer.
DebounceFire(c) ==
  /\ debounceTimer[c]
  /\ debounceTimer' = [debounceTimer EXCEPT ![c] = FALSE]
  /\ LET baseContentForDiff == Predicted(synchronizedContent[c], inFlightOps[c], pendingOps[c])
         ops == diffToOperations(diff(baseContentForDiff, editorValue[c]))
         sent == IF Len(ops) > 0
                   THEN sendOperations(c, latestHash[c], inFlightOps[c], pendingOps[c], toServer[c], ops)
                   ELSE [inFlight |-> inFlightOps[c], pending |-> pendingOps[c],
                         queue |-> toServer[c]]
     IN /\ inFlightOps' = [inFlightOps EXCEPT ![c] = sent.inFlight]
        /\ pendingOps' = [pendingOps EXCEPT ![c] = sent.pending]
        /\ toServer' = [toServer EXCEPT ![c] = sent.queue]
  /\ UNCHANGED <<readyState, fetching, latestHash, synchronizedContent, editorValue,
                 editorDisabled>>

\* handleAck that clears pendingOps without sending it.
handleAck_DropsPending(c, payload) ==
  [latestHash |-> payload.new_hash,
   synchronizedContent |-> IF inFlightOps[c] # NullOps
                             THEN applyOperations(synchronizedContent[c], inFlightOps[c])
                             ELSE synchronizedContent[c],
   inFlightOps |-> NullOps, pendingOps |-> NullOps,
   editorValue |-> editorValue[c], queue |-> toServer[c]]

\* handleAck that clears inFlightOps and leaves pendingOps queued.
handleAck_LeavesPending(c, payload) ==
  [latestHash |-> payload.new_hash,
   synchronizedContent |-> IF inFlightOps[c] # NullOps
                             THEN applyOperations(synchronizedContent[c], inFlightOps[c])
                             ELSE synchronizedContent[c],
   inFlightOps |-> NullOps, pendingOps |-> pendingOps[c],
   editorValue |-> editorValue[c], queue |-> toServer[c]]

\* handleAck(payload): the client's state after it.
handleAck(c, payload) ==
  LET synced == IF inFlightOps[c] # NullOps
                  THEN applyOperations(synchronizedContent[c], inFlightOps[c])
                  ELSE synchronizedContent[c]
      sent == IF pendingOps[c] # NullOps
                THEN sendOperations(c, payload.new_hash, NullOps, pendingOps[c], toServer[c],
                                    pendingOps[c])
                ELSE [inFlight |-> NullOps, pending |-> NullOps, queue |-> toServer[c]]
  IN [latestHash |-> payload.new_hash, synchronizedContent |-> synced,
      inFlightOps |-> sent.inFlight, pendingOps |-> NullOps,
      editorValue |-> editorValue[c], queue |-> sent.queue]

\* handleUpdate that leaves pendingOps as they were.
handleUpdate_PendingKept(c, payload) ==
  LET incomingOps == payload.operations
      synced == applyOperations(synchronizedContent[c], incomingOps)
      inFlight == IF inFlightOps[c] # NullOps
                    THEN transformOperations(inFlightOps[c], incomingOps) ELSE NullOps
  IN [latestHash |-> payload.latest_hash, synchronizedContent |-> synced,
      inFlightOps |-> inFlight, pendingOps |-> pendingOps[c],
      editorValue |-> Predicted(synced, inFlight, pendingOps[c]), queue |-> toServer[c]]

\* handleUpdate(payload): the client's state after it.
handleUpdate(c, payload) ==
  LET incomingOps == payload.operations
      synced == applyOperations(synchronizedContent[c], incomingOps)
      inFlight == IF inFlightOps[c] # NullOps
                    THEN transformOperations(inFlightOps[c], incomingOps) ELSE NullOps
      pending == IF pendingOps[c] # NullOps
                   THEN transformOperations(pendingOps[c], incomingOps) ELSE NullOps
  IN [latestHash |-> payload.latest_hash, synchronizedContent |-> synced,
      inFlightOps |-> inFlight, pendingOps |-> pending,
      editorValue |-> Predicted(synced, inFlight, pending), queue |-> toServer[c]]

\* A frame that changes no state of the client: 'error' and
\* 'user_count_update' only change the status line.
handleOther(c) ==
  [latestHash |-> latestHash[c], synchronizedContent |-> synchronizedContent[c],
   inFlightOps |-> inFlightOps[c], pendingOps |-> pendingOps[c],
   editorValue |-> editorValue[c], queue |-> toServer[c]]

\* ws.onmessage: the client handles the oldest frame the server sent it.
\* No 'conflict' frame is ever sent for well-formed operations (see
\* operationalTransform), so handleConflict's page reload is not modelled.
ClientOnMessage(c) ==
  /\ readyState[c] = "open"
  /\ toClient[c] # <<>>
  /\ LET frame == Head(toClient[c])
         after == IF frame.type = "ack" THEN handleAck(c, frame)
                  ELSE IF frame.type = "update" THEN handleUpdate(c, frame)
                  ELSE handleOther(c)
     IN /\ latestHash' = [latestHash EXCEPT ![c] = after.latestHash]
        /\ synchronizedContent' = [synchronizedContent EXCEPT ![c] = after.synchronizedContent]
        /\ inFlightOps' = [inFlightOps EXCEPT ![c] = after.inFlightOps]
        /\ pendingOps' = [pendingOps EXCEPT ![c] = after.pendingOps]
        /\ editorValue' = [editorValue EXCEPT ![c] = after.editorValue]
        /\ toServer' = [toServer EXCEPT ![c] = after.queue]
  /\ toClient' = [toClient EXCEPT ![c] = Tail(@)]
  /\ UNCHANGED <<readyState, fetching, editorDisabled, debounceTimer>>

\* ws.onclose: the editor is disabled, connect is scheduled in 2 s.
ClientOnClose(c) ==
  /\ readyState[c] = "open"
  /\ readyState' = [readyState EXCEPT ![c] = "closed"]
  /\ editorDisabled' = [editorDisabled EXCEPT ![c] = TRUE]
  /\ UNCHANGED <<fetching, latestHash, synchronizedContent, inFlightOps, pendingOps,
                 editorValue, debounceTimer>>

\* connect(), called by the timer of ws.onclose: a new WebSocket.  The 500 ms
\* timer of an input made before the close has fired by then.
ClientConnect(c) ==
  /\ readyState[c] = "closed"
  /\ ~debounceTimer[c]
  /\ readyState' = [readyState EXCEPT ![c] = "connecting"]
  /\ UNCHANGED <<fetching, latestHash, synchronizedContent, inFlightOps, pendingOps,
                 editorValue, editorDisabled, debounceTimer>>

\* ------------------------------------------------ the editor and its server
\* State after every page has run its DOMContentLoaded handler: the editor is
\* disabled and empty, connect() has created the WebSocket; the server has
\* no room yet.
ServerInit ==
  /\ noteHistories = <<>>
  /\ noteConnections = <<>>
  /\ wsData = [c \in Clients |-> NoSocket]
  /\ toServer = [c \in Clients |-> <<>>]
  /\ toClient = [c \in Clients |-> <<>>]
  /\ fetchResponse = [c \in Clients |-> NoResponse]
  /\ now = 0

ClientInit ==
  /\ readyState = [c \in Clients |-> "connecting"]
  /\ fetching = [c \in Clients |-> FALSE]
  /\ latestHash = [c \in Clients |-> Null]
  /\ synchronizedContent = [c \in Clients |-> <<>>]
  /\ inFlightOps = [c \in Clients |-> NullOps]
  /\ pendingOps = [c \in Clients |-> NullOps]
  /\ editorValue = [c \in Clients |-> <<>>]
  /\ editorDisabled = [c \in Clients |-> TRUE]
  /\ debounceTimer = [c \in Clients |-> FALSE]
  /\ inputs = 0
  /\ frames = 0

PureIdle ==
  /\ pBase = <<>>
  /\ pClient = <<>>
  /\ pServer = <<>>
  /\ pResult = NoResult
  /\ NewStore
  /\ NothingSent
  /\ NothingClosed

Init == ServerInit /\ ClientInit /\ PureIdle

\* The upgrade of client c's WebSocket reaches the server.
Upgrade(c) ==
  /\ readyState[c] = "connecting"
  /\ ServerOpen(c, noteId)
  /\ UNCHANGED <<cvars, inputs, frames, pvars>>

OnOpen(c) == ClientOnOpen(c) /\ UNCHANGED <<svars, inputs, frames, pvars>>

\* The GET of client c reaches the server.
Fetch(c) ==
  /\ fetching[c]
  /\ fetchResponse[c] = NoResponse
  /\ ServerGet(c, noteId)
  /\ UNCHANGED <<cvars, inputs, frames, pvars>>

Fetched(c) ==
  /\ ClientFetched(c)
  /\ UNCHANGED <<noteHistories, noteConnections, wsData, toServer, toClient, now, inputs,
                 frames, pvars>>

Input(c) == EditorInput(c) /\ UNCHANGED <<svars, frames, pvars>>

Debounce(c) ==
  /\ DebounceFire(c)
  /\ UNCHANGED <<noteHistories, noteConnections, wsData, toClient, fetchResponse, now,
                 inputs, frames, pvars>>

Deliver(c) ==
  /\ ClientOnMessage(c)
  /\ UNCHANGED <<noteHistories, noteConnections, wsData, fetchResponse, now, inputs,
                 frames, pvars>>

Serve(c) == ServerMessage(c) /\ UNCHANGED <<cvars, inputs, frames, pvars>>

Clock == Tick /\ UNCHANGED <<cvars, inputs, frames, pvars>>

Next ==
  \/ \E c \in Clients : Upgrade(c)
  \/ \E c \in Clients : OnOpen(c)
  \/ \E c \in Clients : Fetch(c)
  \/ \E c \in Clients : Fetched(c)
  \/ \E c \in Clients : Input(c)
  \/ \E c \in Clients : Debounce(c)
  \/ \E c \in Clients : Deliver(c)
  \/ \E c \in Clients : Serve(c)
  \/ Clock

vars == <<svars, cvars, inputs, frames, pvars>>
Spec == Init /\ [][Next]_vars

\* ------------------------------------------------ the editing phase alone
\* Every client is connected and has handled its initial fetch of the empty
\* note, and nobody has typed yet: a state of Spec, reached when all the
\* connections are set up before the first keystroke.
InitialCommit == CommitHash(TreeHash(noteId, BlobHash(<<>>)), Null, "Initial empty commit", 0)

EditingInit ==
  /\ noteHistories = getHistoryForNote(<<>>, noteId, 0)
  /\ noteConnections = [n \in {noteId} |-> Clients]
  /\ wsData = [c \in Clients |-> noteId]
  /\ toServer = [c \in Clients |-> <<>>]
  /\ toClient = [c \in Clients |-> <<>>]
  /\ fetchResponse = [c \in Clients |-> NoResponse]
  /\ now = 0
  /\ readyState = [c \in Clients |-> "open"]
  /\ fetching = [c \in Clients |-> FALSE]
  /\ latestHash = [c \in Clients |-> InitialCommit]
  /\ synchronizedContent = [c \in Clients |-> <<>>]
  /\ inFlightOps = [c \in Clients |-> NullOps]
  /\ pendingOps = [c \in Clients |-> NullOps]
  /\ editorValue = [c \in Clients |-> <<>>]
  /\ editorDisabled = [c \in Clients |-> FALSE]
  /\ debounceTimer = [c \in Clients |-> FALSE]
  /\ inputs = 0
  /\ frames = 0
  /\ PureIdle

EditingNext ==
  \/ \E c \in Clients : Input(c)
  \/ \E c \in Clients : Debounce(c)
  \/ \E c \in Clients : Deliver(c)
  \/ \E c \in Clients : Serve(c)
  \/ Clock

SpecEditing == EditingInit /\ [][EditingNext]_vars

\* ------------------------------------------ editing a note that has text
\* Every client is connected to a note whose HEAD holds the text "ab" and has
\* it as its synchronized content: a state of Spec with larger bounds,
\* reached when one client has typed "ab" and every frame has been handled.
SeededContent == <<"a", "b">>
SeededHistory ==
  commit(getHistoryForNote(<<>>, noteId, 0)[noteId], SeededContent, "Update from client", 0)

SeededInit ==
  /\ noteHistories = [n \in {noteId} |-> SeededHistory]
  /\ noteConnections = [n \in {noteId} |-> Clients]
  /\ wsData = [c \in Clients |-> noteId]
  /\ toServer = [c \in Clients |-> <<>>]
  /\ toClient = [c \in Clients |-> <<>>]
  /\ fetchResponse = [c \in Clients |-> NoResponse]
  /\ now = 0
  /\ readyState = [c \in Clients |-> "open"]
  /\ fetching = [c \in Clients |-> FALSE]
  /\ latestHash = [c \in Clients |-> SeededHistory.HEAD]
  /\ synchronizedContent = [c \in Clients |-> SeededContent]
  /\ inFlightOps = [c \in Clients |-> NullOps]
  /\ pendingOps = [c \in Clients |-> NullOps]
  /\ editorValue = [c \in Clients |-> SeededContent]
  /\ editorDisabled = [c \in Clients |-> FALSE]
  /\ debounceTimer = [c \in Clients |-> FALSE]
  /\ inputs = 0
  /\ frames = 0
  /\ PureIdle

SpecSeeded == SeededInit /\ [][EditingNext]_vars

\* ------------------------------------------- editing with transport closes
\* The transport of client c closes: websocket.close on the server, ws.onclose
\* in the page.
Disconnect(c) ==
  /\ closes < MaxCloses
  /\ ~fetching[c]
  /\ ServerClose(c)
  /\ ClientOnClose(c)
  /\ closes' = closes + 1
  /\ UNCHANGED <<inputs, frames, pBase, pClient, pServer, pResult, store, commitLog, sendLog>>

Reconnect(c) == ClientConnect(c) /\ UNCHANGED <<svars, inputs, frames, pvars>>

ReconnectNext ==
  \/ \E c \in Clients : Input(c)
  \/ \E c \in Clients : Debounce(c)
  \/ \E c \in Clients : Deliver(c)
  \/ \E c \in Clients : Serve(c)
  \/ \E c \in Clients : Disconnect(c)
  \/ \E c \in Clients : Reconnect(c)
  \/ \E c \in Clients : Upgrade(c)
  \/ \E c \in Clients : OnOpen(c)
  \/ \E c \in Clients : Fetch(c)
  \/ \E c \in Clients : Fetched(c)
  \/ Clock

SpecReconnect == EditingInit /\ [][ReconnectNext]_vars

\* ------------------------------------------------- the server on its own
\* The server driven by hand-written clients: any socket may open, close,
\* GET, and send any frame.
NoteIds == {noteId, "other-note"}
Unknown == <<"deadbeef">>

RawOps ==
  {InsertOp(<<ch>>, p) : ch \in Alphabet, p \in 0..MaxRawPos}
  \cup {DeleteOp(1, p) : p \in 0..MaxRawPos}
  \cup {RetainOp(1, p) : p \in 0..MaxRawPos}

RECURSIVE ListsUpTo(_, _)
ListsUpTo(S, n) ==
  IF n = 0 THEN {<<>>}
  ELSE LET shorter == ListsUpTo(S, n - 1)
       IN shorter \cup {Append(l, x) : l \in {t \in shorter : Len(t) = n - 1}, x \in S}

\* The hashes a hand-written client may name: every commit of every room,
\* the hash of an object that is not a commit, null, and a hash of nothing.
CommitsOf(histories) ==
  UNION {{h \in DOMAIN histories[n].db : h[1] = "commit"} : n \in DOMAIN histories}
RawHashes == CommitsOf(noteHistories) \cup {BlobHash(<<>>), Null, Unknown}

RawFrames ==
  {SyncMsg(h, ops) : h \in RawHashes, ops \in ListsUpTo(RawOps, MaxRawOps)}
  \cup {[type |-> "ping"]}

RawOpen(ws) ==
  /\ \E n \in NoteIds : ServerOpen(ws, n)
  /\ UNCHANGED <<cvars, inputs, frames, pvars>>

RawClose(ws) == ServerClose(ws) /\ UNCHANGED <<cvars, inputs, frames, pvars>>

\* A GET whose response the hand-written client does not keep.
RawGet ==
  /\ \E n \in NoteIds : noteHistories' = GetNote(noteHistories, n, now).histories
  /\ UNCHANGED <<noteConnections, wsData, toServer, toClient, fetchResponse, now,
                 cvars, inputs, frames, pvars>>

RawSend(ws) ==
  /\ wsData[ws] # NoSocket
  /\ frames < MaxFrames
  /\ \E frame \in RawFrames : toServer' = [toServer EXCEPT ![ws] = Append(@, frame)]
  /\ frames' = frames + 1
  /\ UNCHANGED <<noteHistories, noteConnections, wsData, toClient, fetchResponse, now,
                 cvars, inputs, pvars>>

RawReceive(ws) ==
  /\ toClient[ws] # <<>>
  /\ toClient' = [toClient EXCEPT ![ws] = Tail(@)]
  /\ UNCHANGED <<noteHistories, noteConnections, wsData, toServer, fetchResponse, now,
                 cvars, inputs, frames, pvars>>

ServerNext ==
  \/ \E ws \in Clients : RawOpen(ws)
  \/ \E ws \in Clients : RawClose(ws)
  \/ RawGet
  \/ \E ws \in Clients : RawSend(ws)
  \/ \E ws \in Clients : RawReceive(ws)
  \/ \E ws \in Clients : Serve(ws)
  \/ Clock

SpecServer == Init /\ [][ServerNext]_vars

\* ------------------------------------------------- the editor on its own
\* The clients driven by a hand-written server: it answers every sync with
\* an ack or with the error of an unknown base hash.
StubHashes == {InitialCommit, Unknown}

StubReply(c) ==
  /\ toServer[c] # <<>>
  /\ toServer' = [toServer EXCEPT ![c] = Tail(@)]
  /\ \E reply \in {AckMsg(h) : h \in StubHashes} \cup {ErrorMsg} :
       toClient' = [toClient EXCEPT ![c] = Append(@, reply)]
  /\ UNCHANGED <<noteHistories, noteConnections, wsData, fetchResponse, now,
                 cvars, inputs, frames, pvars>>

ClientNext ==
  \/ \E c \in Clients : Input(c)
  \/ \E c \in Clients : Debounce(c)
  \/ \E c \in Clients : Deliver(c)
  \/ \E c \in Clients : StubReply(c)

SpecClient == EditingInit /\ [][ClientNext]_vars

\* ------------------------------------- the server with its sends logged
\* websocket.message on the oldest frame of socket ws, its calls of send
\* written to sendLog.
ServeLogged(ws) ==
  /\ ServerMessage(ws)
  /\ LET frame == Head(toServer[ws]) IN
       sendLog' = sendLog \o
         (IF frame.type = "sync"
            THEN HandleSync(noteHistories, noteConnections, toClient, ws, frame, now).sends
            ELSE <<>>)
  /\ UNCHANGED <<cvars, inputs, frames, pBase, pClient, pServer, pResult, store, commitLog,
                 closes>>

OrderNext ==
  \/ \E ws \in Clients : RawOpen(ws)
  \/ \E ws \in Clients : RawClose(ws)
  \/ RawGet
  \/ \E ws \in Clients : RawSend(ws)
  \/ \E ws \in Clients : RawReceive(ws)
  \/ \E ws \in Clients : ServeLogged(ws)
  \/ Clock

SpecOrder == Init /\ [][OrderNext]_vars

\* ---------------------------------------------- the store on its own
StoreNext ==
  \/ StoreCommit /\ UNCHANGED <<svars, cvars, inputs, frames>>
  \/ Clock
SpecStore == Init /\ [][StoreNext]_vars

\* ------------------------------------------- the functions on their own
PureNext ==
  \/ PureRoundTrip /\ UNCHANGED <<svars, cvars, inputs, frames>>
  \/ PureMerge /\ UNCHANGED <<svars, cvars, inputs, frames>>
InitPure == ServerInit /\ ClientInit /\ PureInit
SpecPure == InitPure /\ [][PureNext]_vars

\* ------------------------------------------- applyOperations on retains
\* Retain operations of any position, before the text and beyond it, and of
\* any length.
RetainOps ==
  {RetainOp(len, pos) : len \in 0..MaxRetainPos, pos \in (0 - MaxRetainPos)..MaxRetainPos}

ApplyInit ==
  /\ pBase \in StringsUpTo(PureAlphabet, MaxPureLen)
  /\ pClient = <<>>
  /\ pServer = <<>>
  /\ pResult = NoResult
  /\ NewStore
  /\ NothingSent
  /\ NothingClosed

\* applyOperations on pBase and a list of retains.
PureRetains ==
  /\ pResult.kind = "none"
  /\ \E ops \in ListsUpTo(RetainOps, MaxRetains) :
       pResult' = [kind |-> "retains", diffs |-> <<>>, ops |-> ops,
                   content |-> applyOperations(pBase, ops)]
  /\ UNCHANGED <<pBase, pClient, pServer, store, commitLog, sendLog, closes,
                 svars, cvars, inputs, frames>>

InitApply == ServerInit /\ ClientInit /\ ApplyInit
ApplyNext == PureRetains
SpecApply == InitApply /\ [][ApplyNext]_vars

\* ---------------------------------------- transformOperations on any lists
\* Operation lists as a caller may hand them over: of any types, in any
\* order of positions.
TransformOps ==
  {InsertOp(<<"a">>, p) : p \in 0..MaxTransformPos}
  \cup {DeleteOp(1, p) : p \in 0..MaxTransformPos}
  \cup {RetainOp(1, p) : p \in 0..MaxTransformPos}

\* transformOperations on a pair of lists; the walk of its loop is cut one
\* iteration after the |C| + |S| it may need.
PureTransform ==
  /\ pResult.kind = "none"
  /\ \E C \in ListsUpTo(TransformOps, MaxClientOps), S \in ListsUpTo(TransformOps, MaxServerOps) :
       pResult' = [kind |-> "transform", diffs |-> <<>>, content |-> <<>>,
                   clientOps |-> C, serverOps |-> S,
                   ops |-> transformOperations(C, S),
                   walk |-> TransformWalk(C, S, 1, 1, Len(C) + Len(S) + 1)]
  /\ UNCHANGED <<pBase, pClient, pServer, store, commitLog, sendLog, closes,
                 svars, cvars, inputs, frames>>

TransformNext == PureTransform
SpecTransform == Init /\ [][TransformNext]_vars

\* ------------------------------------------------ claims on the functions
\* The text s with t inserted before index p (0-based), and s without the k
\* characters from index d on.
InsertAt(s, p, t) == SubSeq(s, 1, p) \o t \o SubSeq(s, p + 1, Len(s))
DeleteAt(s, d, k) == SubSeq(s, 1, d) \o SubSeq(s, d + k + 1, Len(s))
Chars(s) == {s[i] : i \in 1..Len(s)}
InsertsOf(ops) == {i \in 1..Len(ops) : ops[i].type = "insert"}

\* C3: diff(a, a) is empty, and the operations of diff(a, b) applied to a
\* give b, for all strings a and b.
C3_RoundTrip ==
  pResult.kind = "roundtrip" =>
    /\ pResult.content = pClient
    /\ (pBase = pClient => pResult.diffs = <<>> /\ pResult.ops = <<>>)

\* C3 witnesses: a round trip that deletes all of a non-empty a and inserts
\* at position 0 and at |a| (b shares no character position with a).
C3_Witness ==
  /\ pResult.kind = "roundtrip"
  /\ Len(pBase) = MaxPureLen
  /\ \E i \in InsertsOf(pResult.ops) : pResult.ops[i].position = 0
  /\ \E i \in InsertsOf(pResult.ops) : pResult.ops[i].position = Len(pBase)
  /\ \E i \in 1..Len(pResult.ops) : pResult.ops[i].type = "delete"

\* C10: the server deleted the k characters base[d..d+k) and the client,
\* on the base, inserted a character at p >= d + k; then the merged content
\* is the server content with that character at the shifted position p - k.
\* Stated for the unambiguous instances only: the character does not occur
\* in the base and no other deletion of k characters gives the same server
\* content.
C10_MergedContent ==
  pResult.kind = "merge" =>
    \A d \in 0..Len(pBase), k \in 1..Len(pBase), p \in 0..Len(pBase), ch \in PureAlphabet :
      ( /\ d + k <= p
        /\ ch \notin Chars(pBase)
        /\ pServer = DeleteAt(pBase, d, k)
        /\ \A d2 \in 0..(Len(pBase) - k) : DeleteAt(pBase, d2, k) = pServer => d2 = d
        /\ pClient = InsertAt(pBase, p, <<ch>>) )
      => pResult.content = InsertAt(pServer, p - k, <<ch>>)

\* C9: one client's insert of X at p was committed and a second client, on
\* the base, syncs an insert of Y at p; then the merged content is the base
\* with X immediately followed by Y at p.  Stated for the unambiguous
\* instances only: X and Y share no character with the base or each other.
C9_MergedContent ==
  pResult.kind = "merge" =>
    \A p \in 0..Len(pBase) :
      \A X \in StringsUpTo(PureAlphabet, MaxPureLen + 1) \ {<<>>} :
        \A Y \in StringsUpTo(PureAlphabet, MaxPureLen + 1) \ {<<>>} :
          ( /\ Chars(X) \cap Chars(pBase) = {}
            /\ Chars(Y) \cap Chars(pBase) = {}
            /\ Chars(X) \cap Chars(Y) = {}
            /\ pServer = InsertAt(pBase, p, X)
            /\ pClient = InsertAt(pBase, p, Y) )
          => pResult.content = InsertAt(pBase, p, X \o Y)

\* Two clients made the same deletion of one character of the base, and the
\* first is committed: the server content is the client content.
DuplicateDelete ==
  /\ pResult.kind = "merge"
  /\ pClient = pServer
  /\ \E d \in 0..(Len(pBase) - 1) : pServer = DeleteAt(pBase, d, 1)

\* C11 as claimed: for the second of two identical single-character
\* deletes, the rebased list is empty, the merged content is the server
\* content and the broadcast delta is empty.
C11_RebasedEmpty ==
  DuplicateDelete =>
    /\ pResult.ops = <<>>
    /\ pResult.content = pServer
    /\ diffToOperations(diff(pServer, pResult.content)) = <<>>

\* C11 as amended: the client's delete is dropped, so the rebased list holds
\* retain operations only (none when the base is the deleted character
\* alone); the merged content is the server content and the broadcast delta
\* is empty.
C11_DuplicateDeleteDropped ==
  DuplicateDelete =>
    /\ \A i \in 1..Len(pResult.ops) : pResult.ops[i].type = "retain"
    /\ pResult.content = pServer
    /\ diffToOperations(diff(pServer, pResult.content)) = <<>>

\* C11 witness: the duplicate delete on a base of two characters, where a
\* retain is left in the rebased list.
C11_Witness ==
  /\ DuplicateDelete
  /\ Len(pBase) = 2
  /\ pResult.ops # <<>>

\* A single-character edit of a text: the insert of ch before index pos, or
\* the delete of the character at index pos.
SingleEdits(s) ==
  {[kind |-> "insert", pos |-> p, ch |-> ch] : p \in 0..Len(s), ch \in PureAlphabet \ Chars(s)}
  \cup {[kind |-> "delete", pos |-> p, ch |-> s[p + 1]] : p \in 0..(Len(s) - 1)}
Edited(s, e) ==
  IF e.kind = "insert" THEN InsertAt(s, e.pos, <<e.ch>>) ELSE DeleteAt(s, e.pos, 1)
\* The text with both edits made, the one further right first.
BothEdited(s, e1, e2) ==
  IF e1.pos > e2.pos THEN Edited(Edited(s, e1), e2) ELSE Edited(Edited(s, e2), e1)
AllDifferent(s) == \A i, j \in 1..Len(s) : s[i] = s[j] => i = j

\* C31: when the client's edit and the server's edit of the base are each a
\* single-character insert or delete, at different base positions, the
\* merged content is the base with both edits made.  Stated for the
\* unambiguous instances: the characters of the base are all different and an
\* inserted character is neither in the base nor the other inserted one.
C31_IntentPreserved ==
  pResult.kind = "merge" =>
    \A c \in SingleEdits(pBase), s \in SingleEdits(pBase) :
      ( /\ AllDifferent(pBase)
        /\ c.pos # s.pos
        /\ c.ch # s.ch
        /\ pClient = Edited(pBase, c)
        /\ pServer = Edited(pBase, s) )
      => pResult.content = BothEdited(pBase, c, s)

\* The lines of the entries of diffs whose type is in `types`, in order.
RECURSIVE Spelled(_, _)
Spelled(diffs, types) ==
  IF diffs = <<>> THEN <<>>
  ELSE (IF Head(diffs).type \in types THEN Head(diffs).line ELSE <<>>)
       \o Spelled(Tail(diffs), types)

\* C32: for a # b, the entries of diff(a, b) tagged unchanged or removed
\* spell a and those tagged unchanged or added spell b, so the
\* reconstruction loop has walked both texts to their start.
C32_DiffSpellsBoth ==
  (pResult.kind = "roundtrip" /\ pBase # pClient) =>
    /\ Spelled(pResult.diffs, {"unchanged", "removed"}) = pBase
    /\ Spelled(pResult.diffs, {"unchanged", "added"}) = pClient
    /\ \A k \in 1..Len(pResult.diffs) :
         pResult.diffs[k].type \in {"unchanged", "removed", "added"}

\* C32 witness: a diff with entries of the three types.
C32_Witness ==
  /\ pResult.kind = "roundtrip"
  /\ pBase # pClient
  /\ \A t \in {"unchanged", "removed", "added"} :
       \E k \in 1..Len(pResult.diffs) : pResult.diffs[k].type = t

\* The operations of a diff against the text a: positions never decrease;
\* every index of a is the position of exactly one retain or delete, of
\* length 1; every insert carries one character and stands at the index of a
\* it precedes, |a| at the end: as many retains and deletes stand before it
\* in the list as its position says.
ConsumesSource(op) == op.type \in {"retain", "delete"}
CoversSource(ops, a) ==
  /\ \A k \in 1..(Len(ops) - 1) : ops[k].position <= ops[k + 1].position
  /\ \A i \in 0..(Len(a) - 1) :
       Cardinality({k \in 1..Len(ops) : ConsumesSource(ops[k]) /\ ops[k].position = i}) = 1
  /\ \A k \in 1..Len(ops) :
       /\ ops[k].type \in {"retain", "delete", "insert"}
       /\ ConsumesSource(ops[k]) => (ops[k].length = 1 /\ ops[k].position \in 0..(Len(a) - 1))
       /\ ops[k].type = "insert" =>
            /\ Len(ops[k].text) = 1
            /\ ops[k].position \in 0..Len(a)
            /\ Cardinality({m \in 1..(k - 1) : ConsumesSource(ops[m])}) = ops[k].position

\* C33 as claimed: for every diff of a against b, the operations of
\* diffToOperations cover the source a as above.
C33_OpsCoverSourceAlways ==
  pResult.kind = "roundtrip" => CoversSource(pResult.ops, pBase)

\* C33 as amended: the same for a # b; diff(a, a) is empty and so are its
\* operations, whatever the length of a.
C33_OpsCoverSource ==
  pResult.kind = "roundtrip" =>
    IF pBase = pClient THEN pResult.ops = <<>> ELSE CoversSource(pResult.ops, pBase)

\* C33 witness: two inserts in a row at the same position, at the end of a
\* source of which a character is retained.
C33_Witness ==
  /\ pResult.kind = "roundtrip"
  /\ pBase # pClient
  /\ Len(pResult.ops) >= 3
  /\ pResult.ops[Len(pResult.ops)].type = "insert"
  /\ pResult.ops[Len(pResult.ops) - 1].type = "insert"
  /\ pResult.ops[Len(pResult.ops)].position = Len(pBase)
  /\ pResult.ops[Len(pResult.ops) - 1].position = Len(pBase)
  /\ \E k \in 1..Len(pResult.ops) : pResult.ops[k].type = "retain"

\* Operation t is operation c at another position, or c itself.
MovedOnly(t, c) == t = [c EXCEPT !.position = t.position]

\* The indices of `kept`, in order.
InOrder(n, kept) == SelectSeq([k \in 1..n |-> k], LAMBDA k : k \in kept)

\* T is C in its order with nothing changed but positions, without some of
\* its deletes, each of which meets a delete of S at its position.
OnlyPairedDeletesOmitted(T, C, S) ==
  \E kept \in SUBSET (1..Len(C)) :
    /\ Cardinality(kept) = Len(T)
    /\ \A i \in 1..Len(T) : MovedOnly(T[i], C[InOrder(Len(C), kept)[i]])
    /\ \A k \in (1..Len(C)) \ kept :
         /\ C[k].type = "delete"
         /\ \E j \in 1..Len(S) : S[j].type = "delete" /\ S[j].position = C[k].position

\* C34: transform(C, S) is C in its order with only positions changed,
\* without the deletes that met a server delete at the same position; every
\* insert and retain of C is in it, and it is never longer than C.
C34_OnlyPositionsChange ==
  pResult.kind = "transform" =>
    /\ Len(pResult.ops) <= Len(pResult.clientOps)
    /\ OnlyPairedDeletesOmitted(pResult.ops, pResult.clientOps, pResult.serverOps)

\* C34 witness: of three client operations a delete is omitted and an insert
\* is moved.
C34_Witness ==
  /\ pResult.kind = "transform"
  /\ Len(pResult.clientOps) = 3
  /\ Len(pResult.ops) = 2
  /\ pResult.clientOps[3].type = "insert"
  /\ pResult.ops[2].type = "insert"
  /\ pResult.ops[2].position # pResult.clientOps[3].position

\* C35: transform(C, []) is C for every operation list C, and
\* transform([], S) is empty for every S.
C35_TransformIdentities ==
  pResult.kind = "transform" =>
    /\ pResult.serverOps = <<>> => pResult.ops = pResult.clientOps
    /\ pResult.clientOps = <<>> => pResult.ops = <<>>

\* C35 witness: three client operations, not in the order of their
\* positions, transformed against no server operation.
C35_Witness ==
  /\ pResult.kind = "transform"
  /\ pResult.serverOps = <<>>
  /\ Len(pResult.clientOps) = MaxClientOps
  /\ pResult.clientOps[1].position > pResult.clientOps[2].position

\* C36: the loop of transform(C, S) ends, after at most |C| + |S|
\* iterations, and every iteration advances the client index or the server
\* index and takes neither back.
C36_TransformTerminates ==
  pResult.kind = "transform" =>
    LET walk == pResult.walk
        C == pResult.clientOps
        S == pResult.serverOps
    IN /\ Len(walk) - 1 <= Len(C) + Len(S)
       /\ walk[Len(walk)][1] > Len(C)
       /\ \A k \in 1..(Len(walk) - 1) :
            /\ walk[k + 1][1] >= walk[k][1]
            /\ walk[k + 1][2] >= walk[k][2]
            /\ walk[k + 1][1] > walk[k][1] \/ walk[k + 1][2] > walk[k][2]

\* C36 witness: a walk of five iterations, two of which advance the server
\* index alone, and which ends with both lists used up.
C36_Witness ==
  /\ pResult.kind = "transform"
  /\ Len(pResult.walk) - 1 = MaxClientOps + MaxServerOps
  /\ Len(pResult.clientOps) = MaxClientOps
  /\ Len(pResult.serverOps) = MaxServerOps

\* -------------------------------------------------- claims on the store
LogHashes == [i \in 1..Len(commitLog) |-> commitLog[i].hash]
Reverse(q) == [i \in 1..Len(q) |-> q[Len(q) + 1 - i]]
CommitKeys(db) == {h \in DOMAIN db : h[1] = "commit"}

\* C13: every hash commit has returned resolves to the content that was
\* committed with it.
C13_EveryCommitResolves ==
  \A i \in 1..Len(commitLog) : getContent(store, commitLog[i].hash) = commitLog[i].content

\* C14: HEAD is null, before any commit, or a key of the store; after a
\* commit it is the hash the last commit returned and its content is the
\* content just committed.
C14_HeadResolves ==
  /\ (commitLog = <<>>) => store.HEAD = Null
  /\ store.HEAD = Null \/ store.HEAD \in DOMAIN store.db
  /\ commitLog # <<>> =>
       /\ store.HEAD = commitLog[Len(commitLog)].hash
       /\ getCurrentContent(store) = commitLog[Len(commitLog)].content

\* C15: the parent of every commit is the hash returned by the commit before
\* it, the first commit has no parent, the hashes are all different, and the
\* walk from HEAD along the parents is the commits in reverse order.
C15_LinearChain ==
  /\ \A i \in 1..Len(commitLog) :
       store.db[commitLog[i].hash].parent = IF i = 1 THEN Null ELSE commitLog[i - 1].hash
  /\ \A i, j \in 1..Len(commitLog) : commitLog[i].hash = commitLog[j].hash => i = j
  /\ log(store) = Reverse(LogHashes)
  /\ CommitKeys(store.db) = {commitLog[i].hash : i \in 1..Len(commitLog)}

\* C15 witness: as many commits as the bound allows, two of them of the same
\* text with the same message.
C15_Witness ==
  /\ Len(commitLog) = MaxCommits
  /\ \E i, j \in 1..Len(commitLog) :
       /\ i < j
       /\ commitLog[i].content = commitLog[j].content
       /\ commitLog[i].message = commitLog[j].message

\* C16: a commit of a text that was committed before adds the commit object
\* and nothing else to the store and changes no object of it; and no two
\* keys of the store hold the same commit object.
C16_Deduplicating ==
  [][\A k \in 1..MaxCommits :
       (Len(commitLog) = k - 1 /\ Len(commitLog') = k)
         => /\ (\E i \in 1..(k - 1) : commitLog[i].content = commitLog'[k].content)
                 => /\ DOMAIN store'.db = DOMAIN store.db \cup {commitLog'[k].hash}
                    /\ commitLog'[k].hash \notin DOMAIN store.db
                    /\ commitLog'[k].hash[1] = "commit"
            /\ \A h \in DOMAIN store.db : store'.db[h] = store.db[h]
            /\ \A h1, h2 \in CommitKeys(store'.db) :
                 store'.db[h1] = store'.db[h2] => h1 = h2]_vars

\* C16 witness: a text committed at one time and again at a later time; the
\* store holds one blob and one tree, and two commits.
C16_Witness ==
  /\ Len(commitLog) = 2
  /\ commitLog[1].content = commitLog[2].content
  /\ commitLog[1].hash[5] < commitLog[2].hash[5]
  /\ Cardinality(DOMAIN store.db) = 4

\* ------------------------------------------------- claims on the system
\* The server's content_at(hash) for the clients' room.
ContentAt(hash) ==
  IF noteId \in DOMAIN noteHistories THEN getContent(noteHistories[noteId], hash) ELSE Null
HeadContent ==
  IF noteId \in DOMAIN noteHistories THEN getCurrentContent(noteHistories[noteId]) ELSE Null
Rendered(c) == Predicted(synchronizedContent[c], inFlightOps[c], pendingOps[c])

\* Every client is connected and has its initial state, no timer is armed
\* and no frame or response is on its way: nothing is left to happen but
\* new keystrokes.
Settled ==
  \A c \in Clients :
    /\ readyState[c] = "open"
    /\ ~fetching[c]
    /\ ~editorDisabled[c]
    /\ ~debounceTimer[c]
    /\ toServer[c] = <<>>
    /\ toClient[c] = <<>>

\* C1: once every frame is delivered and handled and no local edit is
\* outstanding, every client's rendered text is the content at the server's
\* HEAD.
C1_Convergence ==
  Settled => \A c \in Clients : Rendered(c) = HeadContent

\* C2: in the step in which a client handles an ack, its synchronized
\* content becomes the server's content at the acknowledged hash.
C2_AckStep(c) ==
  /\ readyState[c] = "open"
  /\ toClient[c] # <<>>
  /\ Head(toClient[c]).type = "ack"
  /\ toClient'[c] = Tail(toClient[c])
C2_AckSynchronized ==
  [][\A c \in Clients :
       C2_AckStep(c) => synchronizedContent'[c] = ContentAt(Head(toClient[c]).new_hash)]_vars

\* C4: once a client has handled its initial fetch, its synchronized content
\* is the server's content at its latestHash.
C4_SynchronizedAtLatestHash ==
  \A c \in Clients :
    (readyState[c] = "open" /\ ~fetching[c] /\ ~editorDisabled[c])
      => synchronizedContent[c] = ContentAt(latestHash[c])

\* The step in which client c handles an update frame.
UpdateStep(c) ==
  /\ readyState[c] = "open"
  /\ toClient[c] # <<>>
  /\ Head(toClient[c]).type = "update"
  /\ toClient'[c] = Tail(toClient[c])

\* C12: when a client handles an update, every character of its editor that
\* its synchronized content does not have (text in flight, pending, or typed
\* since the timer last fired) is still in the editor afterwards.
C12_LocalEditsPreserved ==
  [][\A c \in Clients :
       UpdateStep(c) =>
         \A ch \in Chars(editorValue[c]) \ Chars(synchronizedContent[c]) :
           ch \in Chars(editorValue'[c])]_vars

\* ------------------------------------------------- claims on the server
Last(q) == q[Len(q)]

\* The step in which the server handles a sync frame of socket ws.
SyncStep(ws) ==
  /\ wsData[ws] # NoSocket
  /\ wsData' = wsData
  /\ toServer[ws] # <<>>
  /\ Head(toServer[ws]).type = "sync"
  /\ toServer' = [toServer EXCEPT ![ws] = Tail(@)]

\* The hash names no commit of room n: content_at cannot resolve it.
Unresolvable(n, hash) ==
  \/ n \notin DOMAIN noteHistories
  \/ hash \notin {h \in DOMAIN noteHistories[n].db : h[1] = "commit"}

\* The room's store before the step, as content_at and head() read it.
RoomExists(n) == n \in DOMAIN noteHistories
RoomContentAt(n, hash) == IF RoomExists(n) THEN getContent(noteHistories[n], hash) ELSE Null
RoomHead(n) == IF RoomExists(n) THEN getHeadHash(noteHistories[n]) ELSE Null
Connections(n) == IF n \in DOMAIN noteConnections THEN noteConnections[n] ELSE {}

\* The step appends exactly `reply` to the sender's queue and `update` to the
\* queue of every socket in `targets`, and nothing else to any queue.
SendsExactly(ws, reply, targets, update) ==
  \A s \in Clients :
    toClient'[s] = IF s = ws THEN Append(toClient[s], reply)
                   ELSE IF s \in targets THEN Append(toClient[s], update)
                   ELSE toClient[s]

\* The step makes exactly one commit in room n, of `content`, on top of the
\* HEAD it found, and leaves every other room alone.
CommitsExactly(n, content) ==
  /\ DOMAIN noteHistories' = DOMAIN noteHistories
  /\ \A m \in DOMAIN noteHistories \ {n} : noteHistories'[m] = noteHistories[m]
  /\ LET new == noteHistories'[n].HEAD IN
       /\ new \notin DOMAIN noteHistories[n].db
       /\ noteHistories'[n].db[new].parent = noteHistories[n].HEAD
       /\ getContent(noteHistories'[n], new) = content
       /\ \A h \in DOMAIN noteHistories[n].db :
            h \in DOMAIN noteHistories'[n].db /\ noteHistories'[n].db[h] = noteHistories[n].db[h]

BaseHashNotFound == [type |-> "error", message |-> "Base hash not found. Please reload."]

\* C5 as claimed: a sync whose base_hash cannot be resolved gets exactly one
\* error frame, no update is sent to anybody, and HEAD and the store are
\* unchanged.
C5_UnknownBaseNoCommit ==
  [][\A ws \in Clients :
       (SyncStep(ws) /\ Unresolvable(wsData[ws], Head(toServer[ws]).base_hash))
         => /\ SendsExactly(ws, BaseHashNotFound, {}, BaseHashNotFound)
            /\ noteHistories' = noteHistories]_vars

\* C5 as amended: exactly one error frame and no update; HEAD and the store
\* of an existing room are unchanged; a room the sync is the first to refer
\* to gets its history, holding the initial empty commit alone.
C5_UnknownBaseError ==
  [][\A ws \in Clients :
       (SyncStep(ws) /\ Unresolvable(wsData[ws], Head(toServer[ws]).base_hash))
         => /\ SendsExactly(ws, BaseHashNotFound, {}, BaseHashNotFound)
            /\ DOMAIN noteHistories' = DOMAIN noteHistories \cup {wsData[ws]}
            /\ \A n \in DOMAIN noteHistories : noteHistories'[n] = noteHistories[n]
            /\ ~RoomExists(wsData[ws]) =>
                 LET created == noteHistories'[wsData[ws]] IN
                   /\ Cardinality({h \in DOMAIN created.db : h[1] = "commit"}) = 1
                   /\ created.db[created.HEAD].parent = Null
                   /\ created.db[created.HEAD].message = "Initial empty commit"
                   /\ getCurrentContent(created) = <<>>]_vars

\* C5 witness: the error frame is the only frame sent to a socket, and the
\* room of the socket holds the initial empty commit alone.
C5_Witness ==
  \E ws \in Clients :
    /\ wsData[ws] # NoSocket
    /\ toClient[ws] = <<BaseHashNotFound>>
    /\ RoomExists(wsData[ws])
    /\ noteHistories[wsData[ws]].db[RoomHead(wsData[ws])].parent = Null

\* C6: fast-forward.  A sync whose base_hash is the room's HEAD commits
\* exactly apply(base_content, operations) on top of HEAD, acks the sender
\* with the new hash and sends update{new_hash, operations}, the operations
\* as received, to every other connection of the room and to nobody else.
C6_FastForward ==
  [][\A ws \in Clients :
       LET n == wsData[ws]
           frame == Head(toServer[ws])
       IN (SyncStep(ws) /\ RoomExists(n) /\ frame.base_hash = RoomHead(n))
            => /\ CommitsExactly(n, applyOperations(RoomContentAt(n, frame.base_hash),
                                                    frame.operations))
               /\ SendsExactly(ws, AckMsg(noteHistories'[n].HEAD), Connections(n) \ {ws},
                               UpdateMsg(noteHistories'[n].HEAD, frame.operations))]_vars

\* C6 witness: the HEAD of a room is an 'Update from client' commit whose ack
\* is the last frame sent to one socket and whose update, with operations,
\* is the last frame sent to another.
C6_Witness ==
  \E ws \in Clients, other \in Clients, n \in NoteIds :
    /\ ws # other
    /\ RoomExists(n)
    /\ noteHistories[n].db[RoomHead(n)].message = "Update from client"
    /\ toClient[ws] # <<>> /\ Last(toClient[ws]) = AckMsg(RoomHead(n))
    /\ toClient[other] # <<>>
    /\ Last(toClient[other]).type = "update"
    /\ Last(toClient[other]).latest_hash = RoomHead(n)
    /\ Last(toClient[other]).operations # <<>>

\* C7: every update frame the server sends carries operations that, applied
\* to the content of the HEAD the step found, give the content at the
\* frame's latest_hash.
C7_UpdateAppliesToPreviousHead ==
  [][\A ws \in Clients, s \in Clients :
       ( /\ SyncStep(ws)
         /\ Len(toClient'[s]) = Len(toClient[s]) + 1
         /\ Last(toClient'[s]).type = "update" )
       => /\ RoomExists(wsData[ws])
          /\ applyOperations(RoomContentAt(wsData[ws], RoomHead(wsData[ws])),
                             Last(toClient'[s]).operations)
               = getContent(noteHistories'[wsData[ws]], Last(toClient'[s]).latest_hash)
          /\ Last(toClient'[s]).latest_hash = noteHistories'[wsData[ws]].HEAD]_vars

\* C7 witness: an update of a merge commit that inserts text is the last
\* frame sent to a socket.
C7_Witness ==
  \E s \in Clients, n \in NoteIds :
    /\ RoomExists(n)
    /\ noteHistories[n].db[RoomHead(n)].message = "Merged update from client"
    /\ toClient[s] # <<>>
    /\ Last(toClient[s]).type = "update"
    /\ Last(toClient[s]).latest_hash = RoomHead(n)
    /\ \E i \in 1..Len(Last(toClient[s]).operations) :
         Last(toClient[s]).operations[i].type = "insert"

\* The merge of the claim, spelled out with the primitives.
MergedContentOf(base, client_ops, server) ==
  applyOperations(server,
    transformOperations(diffToOperations(diff(base, applyOperations(base, client_ops))),
                        diffToOperations(diff(base, server))))

\* C8: merge path.  A sync whose base_hash resolves but is not HEAD commits
\* the merged content on top of HEAD, acks the sender with the new hash, and
\* sends update{new_hash, diff_to_ops(diff(server_content, merged_content))}
\* to every other connection of the room exactly when that delta is not
\* empty.
C8_MergePath ==
  [][\A ws \in Clients :
       LET n == wsData[ws]
           frame == Head(toServer[ws])
           base == RoomContentAt(n, frame.base_hash)
           server == RoomContentAt(n, RoomHead(n))
           merged == MergedContentOf(base, frame.operations, server)
           delta == diffToOperations(diff(server, merged))
       IN (SyncStep(ws) /\ base # Null /\ frame.base_hash # RoomHead(n))
            => /\ CommitsExactly(n, merged)
               /\ SendsExactly(ws, AckMsg(noteHistories'[n].HEAD),
                               IF delta # <<>> THEN Connections(n) \ {ws} ELSE {},
                               UpdateMsg(noteHistories'[n].HEAD, delta))]_vars

\* C8 witness: a merge commit that changed the text is HEAD, its ack is the
\* last frame sent to one socket and its update the last sent to another.
C8_Witness ==
  \E ws \in Clients, other \in Clients, n \in NoteIds :
    /\ ws # other
    /\ RoomExists(n)
    /\ noteHistories[n].db[RoomHead(n)].message = "Merged update from client"
    /\ toClient[ws] # <<>> /\ Last(toClient[ws]) = AckMsg(RoomHead(n))
    /\ toClient[other] # <<>>
    /\ Last(toClient[other]).type = "update"
    /\ Last(toClient[other]).latest_hash = RoomHead(n)

\* C8 witness for the skipped broadcast: a merge commit that left the text
\* as it was is HEAD and acked, and the other socket of the room, which has
\* not received anything since, has no update for it.
C8_WitnessNoBroadcast ==
  \E ws \in Clients, other \in Clients, n \in NoteIds :
    /\ ws # other
    /\ RoomExists(n)
    /\ noteHistories[n].db[RoomHead(n)].message = "Merged update from client"
    /\ getContent(noteHistories[n], noteHistories[n].db[RoomHead(n)].parent)
         = getCurrentContent(noteHistories[n])
    /\ toClient[ws] # <<>> /\ Last(toClient[ws]) = AckMsg(RoomHead(n))
    /\ other \in Connections(n)
    /\ toClient[other] = <<>>

\* The history holds the initial commit alone: a blob, a tree and a commit
\* of the empty text without parent, which is HEAD.
FreshHistory(history) ==
  /\ Cardinality(DOMAIN history.db) = 3
  /\ history.HEAD \in DOMAIN history.db
  /\ history.db[history.HEAD].parent = Null
  /\ history.db[history.HEAD].message = "Initial empty commit"
  /\ getCurrentContent(history) = <<>>

\* Every history has exactly one commit without parent, the initial commit
\* of the empty text.
OneInitialCommit ==
  \A n \in DOMAIN noteHistories :
    LET db == noteHistories[n].db
        roots == {h \in CommitKeys(db) : db[h].parent = Null}
    IN /\ Cardinality(roots) = 1
       /\ \A h \in roots : /\ db[h].message = "Initial empty commit"
                           /\ getContent(noteHistories[n], h) = <<>>

\* What a GET of room n does in the current state: for a room that exists it
\* changes nothing and answers with HEAD and the content at HEAD; for any
\* other room it creates the fresh history and answers with that.
GetAnswers(n) ==
  LET got == GetNote(noteHistories, n, now) IN
    /\ got.body.status = "success"
    /\ DOMAIN got.histories = DOMAIN noteHistories \cup {n}
    /\ \A m \in DOMAIN noteHistories : got.histories[m] = noteHistories[m]
    /\ got.body.latest_hash = got.histories[n].HEAD
    /\ got.body.latest_content = getContent(got.histories[n], got.histories[n].HEAD)
    /\ n \notin DOMAIN noteHistories => FreshHistory(got.histories[n])

\* C17: a room's history is created, by a GET or by a sync, with the initial
\* commit of the empty text alone; every history keeps exactly that one
\* commit without parent; a GET of an existing room changes no history and
\* answers with HEAD and its content.
C17_RoomCreatedOnce ==
  /\ [](OneInitialCommit /\ \A n \in NoteIds : GetAnswers(n))
  /\ [][\A n \in NoteIds :
          (n \notin DOMAIN noteHistories /\ n \in DOMAIN noteHistories')
            => FreshHistory(noteHistories'[n])]_vars

\* C17 witness: a room whose history has got a commit on top of the initial
\* one while the other room has its fresh history.
C17_Witness ==
  \E n \in NoteIds, m \in NoteIds :
    /\ n # m
    /\ RoomExists(n) /\ RoomExists(m)
    /\ noteHistories[n].db[RoomHead(n)].parent # Null
    /\ FreshHistory(noteHistories[m])

\* C18: a room without connections has no history that a later client would
\* find: a GET of the room answers with the initial commit of the empty
\* text.
C18_RoomDestroyedOnLastClose ==
  \A n \in NoteIds :
    Connections(n) = {} =>
      LET got == GetNote(noteHistories, n, now) IN
        /\ FreshHistory(got.histories[n])
        /\ got.body.latest_content = <<>>

\* No two commits of a room have the same parent.
NoSharedParent ==
  \A n \in DOMAIN noteHistories :
    \A h1, h2 \in CommitKeys(noteHistories[n].db) :
      noteHistories[n].db[h1].parent = noteHistories[n].db[h2].parent => h1 = h2

\* A step that takes frames from the queue of socket ws, which stays open,
\* takes the oldest frame only; it adds at most one commit, to the room of
\* ws, on top of the HEAD the room had before the step, which is then HEAD;
\* and it leaves every other room as it was.
OneSyncAtATime(ws) ==
  (wsData[ws] # NoSocket /\ wsData' = wsData /\ Len(toServer'[ws]) < Len(toServer[ws]))
    => /\ toServer'[ws] = Tail(toServer[ws])
       /\ \A n \in DOMAIN noteHistories :
            LET added == CommitKeys(noteHistories'[n].db) \ CommitKeys(noteHistories[n].db) IN
              /\ Cardinality(added) <= 1
              /\ added # {} => n = wsData[ws]
              /\ \A h \in added : /\ noteHistories'[n].db[h].parent = noteHistories[n].HEAD
                                  /\ noteHistories'[n].HEAD = h

\* C19: the syncs of a room are handled one at a time, each from the read of
\* HEAD to the commit, in the order of their arrival on a connection, so no
\* two commits of a room have the same parent.
C19_SyncsSerialized ==
  /\ []NoSharedParent
  /\ [][\A ws \in Clients : OneSyncAtATime(ws)]_vars

\* C19 witness: two syncs on the same base, the second merged on top of the
\* commit of the first.
C19_Witness ==
  \E n \in NoteIds :
    /\ RoomExists(n)
    /\ noteHistories[n].db[RoomHead(n)].message = "Merged update from client"
    /\ Cardinality(CommitKeys(noteHistories[n].db)) = 3

\* ------------------------------------------------ claims on the sends
\* Commit `a` was made before commit `h` in the chain of `db`.
RECURSIVE CommittedBefore(_, _, _)
CommittedBefore(db, a, h) ==
  LET parent == db[h].parent IN
    /\ parent # Null
    /\ (parent = a \/ CommittedBefore(db, a, parent))

\* The update frames sent on socket s so far, oldest first.
UpdatesSentTo(s) == SelectSeq(sendLog, LAMBDA e : e.to = s /\ e.frame.type = "update")

\* The updates sent on one socket are updates for commits of a room, in the
\* order of the commits.
UpdatesInCommitOrder ==
  \A s \in Clients :
    LET updates == UpdatesSentTo(s) IN
      /\ \A i \in 1..Len(updates) :
           \E n \in DOMAIN noteHistories :
             updates[i].frame.latest_hash \in CommitKeys(noteHistories[n].db)
      /\ \A i, j \in 1..Len(updates) :
           i < j =>
             \A n \in DOMAIN noteHistories :
               (/\ updates[i].frame.latest_hash \in CommitKeys(noteHistories[n].db)
                /\ updates[j].frame.latest_hash \in CommitKeys(noteHistories[n].db))
                 => CommittedBefore(noteHistories[n].db, updates[i].frame.latest_hash,
                                    updates[j].frame.latest_hash)

\* Every update for a commit is sent after the ack for that commit.
AckBeforeUpdate ==
  \A j \in 1..Len(sendLog) :
    sendLog[j].frame.type = "update" =>
      \E i \in 1..(j - 1) :
        /\ sendLog[i].frame.type = "ack"
        /\ sendLog[i].frame.new_hash = sendLog[j].frame.latest_hash

\* No socket is sent both the ack and an update for the same commit.
NoUpdateToSender ==
  \A i, j \in 1..Len(sendLog) :
    (/\ sendLog[i].frame.type = "ack"
     /\ sendLog[j].frame.type = "update"
     /\ sendLog[i].frame.new_hash = sendLog[j].frame.latest_hash)
      => sendLog[i].to # sendLog[j].to

\* C20: the updates sent on one connection are in the order of the commits,
\* the ack for a commit is sent before any update for it, and the sender of
\* a commit is sent no update for it.
C20_MessageOrdering == UpdatesInCommitOrder /\ AckBeforeUpdate /\ NoUpdateToSender

\* C20 witness: two updates have been sent on one connection.
C20_Witness == \E s \in Clients : Len(UpdatesSentTo(s)) = 2

\* C29: applyOperations on an empty list, or on a list of retains only, of
\* any positions and lengths, returns the text it was given.
C29_RetainsChangeNothing == pResult.kind = "retains" => pResult.content = pBase

\* C29 witness: two retains of non-zero length, one before the text and one
\* beyond it, applied to a text that is not empty.
C29_Witness ==
  /\ pResult.kind = "retains"
  /\ pBase # <<>>
  /\ Len(pResult.ops) = 2
  /\ pResult.ops[1].position > Len(pBase)
  /\ pResult.ops[1].length > 0
  /\ pResult.ops[2].position < 0
  /\ pResult.ops[2].length > 0

\* ------------------------------------------------- claims on the client
\* The step in which the debounce timer of client c fires.
DebounceStep(c) == debounceTimer[c] /\ ~debounceTimer'[c]

\* The ops the timer callback of client c computes.
InputOps(c) ==
  diffToOperations(diff(Predicted(synchronizedContent[c], inFlightOps[c], pendingOps[c]),
                        editorValue[c]))

\* Client c is connected and has handled its fetch.
Connected(c) == readyState[c] = "open" /\ ~fetching[c] /\ ~editorDisabled[c]

\* The syncs of client c that await their ack: on their way to the server, or
\* handled with the ack on its way back.
Outstanding(c) ==
  Len(SelectSeq(toServer[c], LAMBDA f : f.type = "sync"))
    + Len(SelectSeq(toClient[c], LAMBDA f : f.type = "ack"))

\* A local input with a non-empty diff, on an open socket, is sent as one
\* sync on latestHash when nothing is in flight and is appended to pendingOps
\* otherwise.
InputSentOrQueued(c) ==
  (DebounceStep(c) /\ readyState[c] = "open" /\ Len(InputOps(c)) > 0) =>
    IF inFlightOps[c] = NullOps
      THEN /\ inFlightOps'[c] = InputOps(c)
           /\ pendingOps'[c] = pendingOps[c]
           /\ toServer'[c] = Append(toServer[c], SyncMsg(latestHash[c], InputOps(c)))
      ELSE /\ inFlightOps'[c] = inFlightOps[c]
           /\ pendingOps'[c] = ListOrEmpty(pendingOps[c]) \o InputOps(c)
           /\ toServer'[c] = toServer[c]

\* A connected client has at most one sync outstanding, and inFlightOps is
\* present exactly while it has one.
InFlightIffOutstanding ==
  \A c \in Clients :
    Connected(c) =>
      /\ Outstanding(c) <= 1
      /\ (inFlightOps[c] # NullOps) <=> (Outstanding(c) = 1)

\* C21: a local input with a non-empty diff is sent as one sync on
\* latest_hash when in_flight_ops is none and appended to pending_ops when it
\* is present; a client has at most one sync awaiting its ack, and
\* in_flight_ops is present exactly while it has one.
C21_OneSyncOutstanding ==
  /\ []InFlightIffOutstanding
  /\ [][\A c \in Clients : InputSentOrQueued(c)]_vars

\* The step in which client c handles an ack frame.
AckStep(c) ==
  /\ readyState[c] = "open"
  /\ toClient[c] # <<>>
  /\ Head(toClient[c]).type = "ack"
  /\ toClient'[c] = Tail(toClient[c])

\* C22: on ack{new_hash} the client sets synchronized_content to
\* apply(synchronized_content, in_flight_ops), latest_hash to new_hash, and
\* clears in_flight_ops; pending_ops, if any, become the in_flight_ops, are
\* cleared, and are sent as a sync on new_hash; otherwise nothing is sent.
C22_AckMovesPending ==
  [][\A c \in Clients :
       AckStep(c) =>
         LET new_hash == Head(toClient[c]).new_hash IN
           /\ inFlightOps[c] # NullOps
           /\ synchronizedContent'[c] = applyOperations(synchronizedContent[c], inFlightOps[c])
           /\ latestHash'[c] = new_hash
           /\ pendingOps'[c] = NullOps
           /\ IF pendingOps[c] # NullOps
                THEN /\ inFlightOps'[c] = pendingOps[c]
                     /\ toServer'[c] = Append(toServer[c], SyncMsg(new_hash, pendingOps[c]))
                ELSE /\ inFlightOps'[c] = NullOps
                     /\ toServer'[c] = toServer[c]]_vars

\* C22 witness: a client has handled the ack of its commit, the HEAD, and
\* sent what was pending as a sync on it.
C22_Witness ==
  \E c \in Clients, other \in Clients :
    /\ c # other
    /\ latestHash[c] = RoomHead(noteId)
    /\ toClient[other] # <<>>
    /\ Last(toClient[other]).type = "update"
    /\ Last(toClient[other]).latest_hash = RoomHead(noteId)
    /\ inFlightOps[c] # NullOps
    /\ inFlightOps[c] # <<>>
    /\ pendingOps[c] = NullOps
    /\ toServer[c] = <<SyncMsg(latestHash[c], inFlightOps[c])>>

\* C23: on update{latest_hash, operations} the client sets
\* synchronized_content to apply(synchronized_content, operations), replaces
\* in_flight_ops and pending_ops, each if present, by their transform against
\* the operations, sets latest_hash, and renders the editor as
\* apply(apply(synchronized_content, in_flight_ops or []), pending_ops or []).
C23_UpdateRebasesBuffers ==
  [][\A c \in Clients :
       UpdateStep(c) =>
         LET update == Head(toClient[c]) IN
           /\ synchronizedContent'[c] = applyOperations(synchronizedContent[c], update.operations)
           /\ latestHash'[c] = update.latest_hash
           /\ inFlightOps'[c] = IF inFlightOps[c] = NullOps THEN NullOps
                                ELSE transformOperations(inFlightOps[c], update.operations)
           /\ pendingOps'[c] = IF pendingOps[c] = NullOps THEN NullOps
                               ELSE transformOperations(pendingOps[c], update.operations)
           /\ editorValue'[c] =
                applyOperations(applyOperations(synchronizedContent'[c],
                                                ListOrEmpty(inFlightOps'[c])),
                                ListOrEmpty(pendingOps'[c]))
           /\ toServer'[c] = toServer[c]]_vars

\* C23 witness: a client whose first sync is still on its way has handled an
\* update with both buffers present.
C23_Witness ==
  \E c \in Clients :
    /\ toServer[c] # <<>>
    /\ Head(toServer[c]).base_hash = InitialCommit
    /\ latestHash[c] # InitialCommit
    /\ inFlightOps[c] # NullOps
    /\ pendingOps[c] # NullOps
    /\ pendingOps[c] # <<>>
    /\ editorValue[c] = Predicted(synchronizedContent[c], inFlightOps[c], pendingOps[c])

\* The step in which ws.onopen of client c handles the response of its GET.
FetchedStep(c) == fetching[c] /\ ~fetching'[c]

\* The reconnected client has the fetched hash and content and no buffers.
BuffersResetOnReconnect(c) ==
  (closes > 0 /\ FetchedStep(c)) =>
    /\ latestHash'[c] = fetchResponse[c].latest_hash
    /\ synchronizedContent'[c] = fetchResponse[c].latest_content
    /\ editorValue'[c] = fetchResponse[c].latest_content
    /\ inFlightOps'[c] = NullOps
    /\ pendingOps'[c] = NullOps

\* A connected client with no sync awaiting its ack sends its next non-empty
\* local edit as a sync.
NextEditIsSent(c) ==
  (DebounceStep(c) /\ Connected(c) /\ Outstanding(c) = 0 /\ Len(InputOps(c)) > 0) =>
    /\ toServer'[c] # <<>>
    /\ Last(toServer'[c]).type = "sync"
    /\ Len(toServer'[c]) = Len(toServer[c]) + 1

\* C24: after a transport close and the reconnect that follows, the client
\* has the fetched latest_hash and content and in_flight_ops and pending_ops
\* are none, so its next non-empty local edit is sent as a sync.
C24_ReconnectResetsBuffers ==
  [][\A c \in Clients : BuffersResetOnReconnect(c) /\ NextEditIsSent(c)]_vars

\* The part of C24 about the next edit alone.
C24_NextEditIsSent == [][\A c \in Clients : NextEditIsSent(c)]_vars

\* An insert or a delete whose position is beyond the text it is applied to.
BeyondContent(content, operations) ==
  \E i \in 1..Len(operations) :
    /\ operations[i].type \in {"insert", "delete"}
    /\ operations[i].position > Len(content)

\* C25: on the merge path a sync holding an operation whose position is
\* beyond the base content is answered with a conflict whose reason is
\* "OT failed"; nothing is committed and nothing else is sent.
C25_IllFormedIsConflict ==
  [][\A ws \in Clients :
       SyncStep(ws) =>
         LET n == wsData[ws]
             sync == Head(toServer[ws])
         IN (/\ ~Unresolvable(n, sync.base_hash)
             /\ sync.base_hash # RoomHead(n)
             /\ BeyondContent(RoomContentAt(n, sync.base_hash), sync.operations))
              => /\ noteHistories' = noteHistories
                 /\ toClient'[ws] = Append(toClient[ws], ConflictMsg("OT failed"))
                 /\ \A s \in Clients \ {ws} : toClient'[s] = toClient[s]]_vars

\* The step in which client c handles an error frame.
ErrorStep(c) ==
  /\ readyState[c] = "open"
  /\ toClient[c] # <<>>
  /\ Head(toClient[c]).type = "error"
  /\ toClient'[c] = Tail(toClient[c])

\* C26: on the error of an unknown base hash the client clears in_flight_ops
\* and fetches the initial state again.
C26_ErrorRefetches ==
  [][\A c \in Clients : ErrorStep(c) => (inFlightOps'[c] = NullOps /\ fetching'[c])]_vars

\* The consequence C26 names: after an error has been handled and no frame
\* is on its way, a non-empty local edit is sent as a sync.
C26_EditSentAfterError ==
  [][\A c \in Clients :
       (/\ DebounceStep(c)
        /\ Len(InputOps(c)) > 0
        /\ toServer[c] = <<>>
        /\ toClient[c] = <<>>)
         => toServer'[c] # <<>>]_vars

\* The step in which the server handles a frame of socket ws whose type is
\* not 'sync'.
OtherFrameStep(ws) ==
  /\ wsData[ws] # NoSocket
  /\ wsData' = wsData
  /\ toServer[ws] # <<>>
  /\ Head(toServer[ws]).type # "sync"
  /\ toServer' = [toServer EXCEPT ![ws] = Tail(@)]

\* C27: a frame whose type is not sync is dropped: no room history is
\* created, no store and no HEAD changes, the connection sets stay, and
\* nothing is sent to any connection.
C27_OtherFramesDropped ==
  [][\A ws \in Clients :
       OtherFrameStep(ws) =>
         /\ noteHistories' = noteHistories
         /\ noteConnections' = noteConnections
         /\ toClient' = toClient]_vars

\* C27 witness: a frame that is not a sync is the next frame of a socket
\* whose room has no history yet.
C27_Witness ==
  \E ws \in Clients :
    /\ wsData[ws] # NoSocket
    /\ ~RoomExists(wsData[ws])
    /\ toServer[ws] # <<>>
    /\ Head(toServer[ws]).type = "ping"

\* The step handles a sync, an open or a close of socket ws, in room X.
StepInRoom(ws, X) ==
  \/ SyncStep(ws) /\ X = wsData[ws]
  \/ wsData[ws] = NoSocket /\ wsData'[ws] = X
  \/ wsData[ws] = X /\ wsData'[ws] = NoSocket

\* Room Y is after the step as it was before: its history, its HEAD, its
\* connections and the frames sent to them.
RoomUntouched(Y) ==
  /\ RoomExists(Y) <=> (Y \in DOMAIN noteHistories')
  /\ RoomExists(Y) => noteHistories'[Y] = noteHistories[Y]
  /\ (Y \in DOMAIN noteConnections) <=> (Y \in DOMAIN noteConnections')
  /\ Y \in DOMAIN noteConnections => noteConnections'[Y] = noteConnections[Y]
  /\ \A s \in Clients : wsData[s] = Y => toClient'[s] = toClient[s]

\* C28: a sync, an open or a close in room X leaves the history and the HEAD
\* of every other room Y as they were and sends nothing to a connection of Y.
C28_RoomsIndependent ==
  [][\A ws \in Clients, X \in NoteIds :
       StepInRoom(ws, X) => \A Y \in NoteIds \ {X} : RoomUntouched(Y)]_vars

\* C28 witness: a sync has been committed and acknowledged in one room while
\* a socket of another room, still at its initial commit, was sent nothing.
C28_Witness ==
  \E ws \in Clients, s \in Clients :
    /\ wsData[ws] # NoSocket
    /\ wsData[s] # NoSocket
    /\ wsData[ws] # wsData[s]
    /\ RoomExists(wsData[ws])
    /\ RoomExists(wsData[s])
    /\ noteHistories[wsData[ws]].db[RoomHead(wsData[ws])].message = "Update from client"
    /\ toClient[ws] = <<AckMsg(RoomHead(wsData[ws]))>>
    /\ noteHistories[wsData[s]].db[RoomHead(wsData[s])].parent = Null
    /\ toClient[s] = <<>>

\* C30: whenever pending_ops is present after a local input was processed,
\* applying it to apply(synchronized_content, in_flight_ops) yields the
\* editor text of that input, also when the input was appended to a
\* pending_ops that was already there.
C30_PendingYieldsEditorText ==
  [][\A c \in Clients :
       (DebounceStep(c) /\ pendingOps'[c] # NullOps) =>
         Predicted(synchronizedContent'[c], inFlightOps'[c], pendingOps'[c]) = editorValue[c]]_vars

\* C37: in every state of a client, pending_ops present implies
\* in_flight_ops present.
C37_PendingImpliesInFlight ==
  \A c \in Clients : pendingOps[c] # NullOps => inFlightOps[c] # NullOps

\* C37 witness: a client that has handled the ack of its commit, the HEAD,
\* has operations in flight and operations pending.
C37_Witness ==
  \E c \in Clients, other \in Clients :
    /\ c # other
    /\ latestHash[c] = RoomHead(noteId)
    /\ latestHash[c] # InitialCommit
    /\ latestHash[other] = InitialCommit
    /\ inFlightOps[c] # NullOps
    /\ pendingOps[c] # NullOps
    /\ pendingOps[c] # <<>>

\* ------------------------------------------------------------------------
\* C38: one reply per sync, and HEAD moves with the ack alone
\* ------------------------------------------------------------------------

\* head() of room n after the step; Null while the room has no history.
RoomHeadAfter(n) == IF n \in DOMAIN noteHistories' THEN noteHistories'[n].HEAD ELSE Null

\* The step appends exactly one frame to the queue of ws, of one of the
\* three reply types.
OneReply(ws) ==
  /\ Len(toClient'[ws]) = Len(toClient[ws]) + 1
  /\ SubSeq(toClient'[ws], 1, Len(toClient[ws])) = toClient[ws]
  /\ Last(toClient'[ws]).type \in {"ack", "error", "conflict"}

\* The step adds exactly one commit to room n, whose parent is the HEAD the
\* step found, and makes it HEAD.
HeadAdvancesByOne(n) ==
  /\ RoomExists(n)
  /\ n \in DOMAIN noteHistories'
  /\ RoomHeadAfter(n) \notin DOMAIN noteHistories[n].db
  /\ noteHistories'[n].db[RoomHeadAfter(n)].parent = RoomHead(n)
  /\ CommitKeys(noteHistories'[n].db) = CommitKeys(noteHistories[n].db) \cup {RoomHeadAfter(n)}

\* The room is new after the step and holds its initial empty commit alone.
RoomCreated(n) ==
  /\ ~RoomExists(n)
  /\ n \in DOMAIN noteHistories'
  /\ CommitKeys(noteHistories'[n].db) = {RoomHeadAfter(n)}
  /\ noteHistories'[n].db[RoomHeadAfter(n)].parent = Null
  /\ noteHistories'[n].db[RoomHeadAfter(n)].message = "Initial empty commit"

\* C38 as claimed: every sync the server handles sends exactly one reply to
\* its sender, an ack, an error or a conflict; if the reply is an ack HEAD
\* advances by exactly one commit and the ack's new_hash is the HEAD after
\* the step; otherwise HEAD is what it was before the step.
C38_OneReplyHeadUnchangedOtherwise ==
  [][\A ws \in Clients :
       SyncStep(ws) =>
         /\ OneReply(ws)
         /\ IF Last(toClient'[ws]).type = "ack"
              THEN /\ HeadAdvancesByOne(wsData[ws])
                   /\ Last(toClient'[ws]).new_hash = RoomHeadAfter(wsData[ws])
              ELSE RoomHeadAfter(wsData[ws]) = RoomHead(wsData[ws])]_vars

\* C38 as amended: exactly one reply, an ack, an error or a conflict; with
\* an ack HEAD advances by exactly one commit and new_hash is the HEAD after
\* the step; with any other reply the HEAD of a room that had a history is
\* unchanged, and a room the sync is the first to refer to gets its history
\* with the initial empty commit as HEAD.
C38_OneReplyPerSync ==
  [][\A ws \in Clients :
       SyncStep(ws) =>
         /\ OneReply(ws)
         /\ IF Last(toClient'[ws]).type = "ack"
              THEN /\ HeadAdvancesByOne(wsData[ws])
                   /\ Last(toClient'[ws]).new_hash = RoomHeadAfter(wsData[ws])
              ELSE \/ RoomExists(wsData[ws])
                      /\ RoomHeadAfter(wsData[ws]) = RoomHead(wsData[ws])
                   \/ RoomCreated(wsData[ws])]_vars

\* C38 witness: a socket has been sent both replies the server gives, an
\* error and later an ack whose new_hash is the HEAD of its room, a commit
\* on top of the initial one.
C38_Witness ==
  \E ws \in Clients :
    /\ Len(toClient[ws]) >= 2
    /\ \E i \in 1..(Len(toClient[ws]) - 1) : toClient[ws][i].type = "error"
    /\ Last(toClient[ws]).type = "ack"
    /\ RoomExists(wsData[ws])
    /\ Last(toClient[ws]).new_hash = RoomHead(wsData[ws])
    /\ noteHistories[wsData[ws]].db[RoomHead(wsData[ws])].parent # Null

\* ------------------------------------------------------------------------
\* C39: no sync with an empty operations list
\* ------------------------------------------------------------------------

\* C39: whenever a client puts a frame on its socket, the frame is a sync
\* whose operations list is not empty.
C39_NoEmptySync ==
  [][\A c \in Clients :
       Len(toServer'[c]) > Len(toServer[c])
         => Last(toServer'[c]).operations # <<>>]_vars

\* ------------------------------------------------------------------------
\* C40: an idle client knows the HEAD
\* ------------------------------------------------------------------------

\* Client c is connected, has no in-flight and no pending operations, and
\* every frame sent to it has been delivered and handled.
Idle(c) ==
  /\ Connected(c)
  /\ inFlightOps[c] = NullOps
  /\ pendingOps[c] = NullOps
  /\ toClient[c] = <<>>

\* C40: a client with no in-flight and no pending operations that has
\* handled every frame sent to it has the server's HEAD as its latest_hash,
\* so that its next sync is fast-forwarded.
C40_IdleClientAtHead ==
  \A c \in Clients : Idle(c) => latestHash[c] = RoomHead(noteId)

====
